---------------------------- MODULE Spec2Model ----------------------------
(***************************************************************************)
(* Model of the recommendation pipeline of student_decision_support:      *)
(*   app.py                       request handlers                        *)
(*   course_selection_assistant.py  filter, scorer, diversity re-ranking  *)
(*   student_data_analyzer.py       cohort index, cohort enhancement      *)
(*                                                                         *)
(* Numbers.  Python floats are modelled by exact rationals plus the two   *)
(* special values the code can produce, inf and nan: a number is a record *)
(* [k, n, d] with k in {"num", "inf", "nan"}, n/d in lowest terms, d > 0. *)
(* Rounding error of binary floating point is not modelled.               *)
(* Strings are sequences of one-character strings, so that lower(),       *)
(* substring tests and splitting are computed, not assumed.               *)
(***************************************************************************)
EXTENDS Integers, Sequences, FiniteSets, TLC

VARIABLES
    \* ---- one recommendation request (app.get_recommendations / run) ----
    entry,              \* "api" (app.get_recommendations) or "cli" (run)
    request,            \* the PreferenceSet as sent by the caller
    db,                 \* the catalog database the assistant reads
    user_preferences,   \* CourseSelectionAssistant.user_preferences
    criteria_weights,   \* CourseSelectionAssistant.criteria_weights
    pc,                 \* position of the request in its handler
    filtered,           \* result of filter_programs
    scored,             \* result of score_programs
    boosted,            \* result of apply_diversity_boosting
    enhanced,           \* result of enhance_recommendations
    explanations,       \* result of generate_explanations
    response,           \* what the caller receives
    \* ---- the shared StudentDataAnalyzer (app.student_analyzer) ----
    student_data,
    feature_columns,
    normalized_features,
    model,
    \* ---- concurrent requests on the shared analyzer ----
    file,               \* the historical dataset on disk (data_path)
    sklearn,            \* SKLEARN_AVAILABLE: scikit-learn could be imported
    tpc,                \* per thread: position in its handler
    tbuild,             \* per thread: number of the rebuild it is running
    builds,             \* number of rebuilds started so far
    origin,             \* per analyzer field: the rebuild that wrote it
    observed,           \* per thread: the origins its last read saw
    \* ---- pure functions applied to drawn inputs ----
    fn_in,
    fn_out

pipeVars == <<entry, request, db, user_preferences, criteria_weights, pc,
              filtered, scored, boosted, enhanced, explanations, response>>
anVars   == <<student_data, feature_columns, normalized_features, model>>
thrVars  == <<file, tpc, tbuild, builds, origin, observed>>
fnVars   == <<fn_in, fn_out>>
vars     == <<pipeVars, anVars, thrVars, sklearn, fnVars>>

-----------------------------------------------------------------------------
(* Numbers *)

Abs(x) == IF x < 0 THEN -x ELSE x

RECURSIVE GCD(_, _)
GCD(a, b) == IF b = 0 THEN a ELSE GCD(b, a % b)

LCM(a, b) == (a \div GCD(a, b)) * b

\* n/d in lowest terms with a positive denominator (d # 0)
Rat(n, d) ==
    LET g == GCD(Abs(n), Abs(d))
        s == IF d < 0 THEN -1 ELSE 1
    IN  [k |-> "num", n |-> s * (n \div g), d |-> s * (d \div g)]

Num(i) == [k |-> "num", n |-> i, d |-> 1]
NaN    == [k |-> "nan", n |-> 0, d |-> 1]
Inf    == [k |-> "inf", n |-> 1, d |-> 1]

IsNum(x) == x.k = "num"
IsNaN(x) == x.k = "nan"

\* a < b of Python floats: False whenever either side is nan
FLt(a, b) ==
    CASE IsNaN(a) \/ IsNaN(b) -> FALSE
      [] a.k = "inf"          -> FALSE
      [] b.k = "inf"          -> TRUE
      [] OTHER -> LET l == LCM(a.d, b.d)
                  IN  a.n * (l \div a.d) < b.n * (l \div b.d)

FLe(a, b) ==
    CASE IsNaN(a) \/ IsNaN(b) -> FALSE
      [] b.k = "inf"          -> TRUE
      [] a.k = "inf"          -> FALSE
      [] OTHER -> LET l == LCM(a.d, b.d)
                  IN  a.n * (l \div a.d) <= b.n * (l \div b.d)

FGt(a, b) == FLt(b, a)
FGe(a, b) == FLe(b, a)

FAdd(a, b) ==
    CASE IsNaN(a) \/ IsNaN(b)           -> NaN
      [] a.k = "inf" \/ b.k = "inf"     -> Inf
      [] OTHER -> LET l == LCM(a.d, b.d)
                  IN  Rat(a.n * (l \div a.d) + b.n * (l \div b.d), l)

\* a - b; inf - inf is nan
FSub(a, b) ==
    CASE IsNaN(a) \/ IsNaN(b)           -> NaN
      [] a.k = "inf" /\ b.k = "inf"     -> NaN
      [] a.k = "inf"                    -> Inf
      [] OTHER -> LET l == LCM(a.d, b.d)
                  IN  Rat(a.n * (l \div a.d) - b.n * (l \div b.d), l)

FMul(a, b) ==
    CASE IsNaN(a) \/ IsNaN(b)           -> NaN
      [] a.k = "inf" \/ b.k = "inf"     ->
            IF (IsNum(a) /\ a.n = 0) \/ (IsNum(b) /\ b.n = 0) THEN NaN ELSE Inf
      [] OTHER -> LET g1 == GCD(Abs(a.n), b.d)
                      g2 == GCD(Abs(b.n), a.d)
                  IN  Rat((a.n \div g1) * (b.n \div g2),
                          (a.d \div g2) * (b.d \div g1))

\* a / b for b # 0 (a zero divisor is handled where the code divides);
\* inf/inf is nan, x/inf is 0
FDiv(a, b) ==
    CASE IsNaN(a) \/ IsNaN(b)           -> NaN
      [] a.k = "inf" /\ b.k = "inf"     -> NaN
      [] a.k = "inf"                    -> Inf
      [] b.k = "inf"                    -> Num(0)
      [] OTHER -> LET g1 == GCD(Abs(a.n), Abs(b.n))
                      g2 == GCD(a.d, b.d)
                  IN  Rat((a.n \div g1) * (b.d \div g2),
                          (a.d \div g2) * (b.n \div g1))

\* Python's builtin max(a, b) and min(a, b): the first argument is kept
\* unless the second compares strictly greater (smaller)
PyMax(a, b) == IF FGt(b, a) THEN b ELSE a
PyMin(a, b) == IF FLt(b, a) THEN b ELSE a

\* round(x * 1000) to an integer, ties to even: match_percentage is kept in
\* tenths of a percent, so round(final_score * 100, 1) is RoundTenths / 10
Floor(n, d) == IF n >= 0 THEN n \div d ELSE -((-n + d - 1) \div d)

RoundHalfEven(x) ==
    LET f == Floor(x.n, x.d)
        r == 2 * (x.n - f * x.d)          \* twice the fractional part, times d
    IN  IF r < x.d THEN f
        ELSE IF r > x.d THEN f + 1
        ELSE IF f % 2 = 0 THEN f ELSE f + 1

RoundTenths(x) == RoundHalfEven(FMul(x, Num(1000)))

-----------------------------------------------------------------------------
(* score_programs: the tuition cost score *)

\* a variant without the lower clamp max(0.0, .)
TuitionScore_NoFloor(cost, max_tuition) ==
    IF FLe(cost, Num(0)) THEN Num(1)
    ELSE PyMin(Num(1), FDiv(FSub(max_tuition, cost), max_tuition))

\* a variant that gives the full score to every cost within the ceiling
TuitionScore_FullWithinCeiling(cost, max_tuition) ==
    IF FLe(cost, max_tuition) THEN Num(1) ELSE Num(0)

\* 1.0 if cost <= 0 else min(1.0, max(0.0, (max_tuition - cost) / max_tuition))
TuitionScore(cost, max_tuition) ==
    IF FLe(cost, Num(0)) THEN Num(1)
    ELSE PyMin(Num(1), PyMax(Num(0), FDiv(FSub(max_tuition, cost), max_tuition)))

-----------------------------------------------------------------------------
(* Strings *)

UpperCase == <<"A","B","C","D","E","F","G","H","I","J","K","L","M",
               "N","O","P","Q","R","S","T","U","V","W","X","Y","Z">>
LowerCase == <<"a","b","c","d","e","f","g","h","i","j","k","l","m",
               "n","o","p","q","r","s","t","u","v","w","x","y","z">>

\* str.lower()
LowerChar(c) ==
    IF \E i \in 1..Len(UpperCase) : UpperCase[i] = c
    THEN LowerCase[CHOOSE i \in 1..Len(UpperCase) : UpperCase[i] = c]
    ELSE c

Lower(s) == [i \in 1..Len(s) |-> LowerChar(s[i])]

\* sub in s
Contains(s, sub) ==
    \E i \in 0..(Len(s) - Len(sub)) : SubSeq(s, i + 1, i + Len(sub)) = sub

\* Series.str.contains(pat), whose pat is a regular expression (regex=True
\* is the default): a search for pat anywhere in s.  Of the
\* metacharacters, the texts drawn here hold '.', which stands for any one
\* character; every other character of them stands for itself.
RegexSearch(s, pat) ==
    \E o \in 0..(Len(s) - Len(pat)) :
        \A i \in 1..Len(pat) : pat[i] = "." \/ s[o + i] = pat[i]

\* x in list
InList(x, list) == \E i \in 1..Len(list) : list[i] = x

\* str.replace(old, new) for one-character old and new
ReplaceChar(s, old, new) == [i \in 1..Len(s) |-> IF s[i] = old THEN new ELSE s[i]]

\* str.split(): the maximal runs of non-blank characters, in order
RECURSIVE SplitFrom(_, _, _)
SplitFrom(s, i, word) ==
    IF i > Len(s) THEN (IF word = <<>> THEN <<>> ELSE <<word>>)
    ELSE IF s[i] = " "
         THEN (IF word = <<>> THEN <<>> ELSE <<word>>) \o SplitFrom(s, i + 1, <<>>)
         ELSE SplitFrom(s, i + 1, Append(word, s[i]))

Split(s) == SplitFrom(s, 1, <<>>)

\* the texts of the catalog and of the requests
S_empty == <<>>
S_cs == <<"c", "s">>
S_msc == <<"m", "s", "c">>
S_ms_dot == <<"m", "s", ".">>
S_law == <<"l", "a", "w">>
S_art == <<"a", "r", "t">>
S_msc_law == <<"m", "s", "c", ",", " ", "l", "a", "w">>
S_MScAI == <<"M", "S", "c", " ", "A", "I">>
S_MScCS == <<"M", "S", "c", " ", "C", "S">>
S_LLMLaw == <<"L", "L", "M", " ", "L", "a", "w">>
S_BScCS == <<"B", "S", "c", " ", "C", "S">>
S_CS == <<"C", "S">>
S_Law == <<"L", "a", "w">>
S_Master == <<"M", "a", "s", "t", "e", "r">>
S_master == <<"m", "a", "s", "t", "e", "r">>
S_Bachelor == <<"B", "a", "c", "h", "e", "l", "o", "r">>
S_English == <<"E", "n", "g", "l", "i", "s", "h">>
S_Italian == <<"I", "t", "a", "l", "i", "a", "n">>
S_GermanEnglish == <<"G", "e", "r", "m", "a", "n", "/", "E", "n", "g", "l", "i", "s", "h">>
S_english == <<"e", "n", "g", "l", "i", "s", "h">>
S_MIT == <<"M", "I", "T">>
S_UCL == <<"U", "C", "L">>
S_Roma == <<"R", "o", "m", "a">>
S_USA == <<"U", "S", "A">>
S_UK == <<"U", "K">>
S_Italy == <<"I", "t", "a", "l", "y">>
S_usa == <<"u", "s", "a">>

-----------------------------------------------------------------------------
(* The catalog database (data/studentDSS.db) *)

\* the number of rows of the programs table
NPrograms == 4

\* a table (DataFrame): the columns it has and its rows in order; NoTable is
\* the value None
NoTable == [none |-> TRUE, cols |-> {}, rows |-> <<>>]

Table(cols, rows) == [none |-> FALSE, cols |-> cols, rows |-> rows]

\* universities: id, name, country, ranking_global
Universities ==
    << [id |-> 1, name |-> S_MIT,  country |-> S_USA,   ranking_global |-> Num(5)],
       [id |-> 2, name |-> S_UCL,  country |-> S_UK,    ranking_global |-> Num(8)],
       [id |-> 3, name |-> S_Roma, country |-> S_Italy, ranking_global |-> Num(300)] >>

\* programs: id, name, university_id, field, level, language, duration,
\* tuition_per_year; a missing number (SQL NULL) is read as nan
AllPrograms ==
    << [id |-> 1, name |-> S_MScAI, university_id |-> 1, field |-> S_CS,
        level |-> S_Master, language |-> S_English, duration |-> Num(2),
        tuition_per_year |-> Num(20000)],
       [id |-> 2, name |-> S_MScCS, university_id |-> 2, field |-> S_CS,
        level |-> S_Master, language |-> S_English, duration |-> Num(2),
        tuition_per_year |-> Num(20000)],
       [id |-> 3, name |-> S_MScCS, university_id |-> 1, field |-> S_CS,
        level |-> S_Master, language |-> S_English, duration |-> Num(2),
        tuition_per_year |-> Num(0)],
       [id |-> 4, name |-> S_LLMLaw, university_id |-> 3, field |-> S_Law,
        level |-> S_Master, language |-> S_Italian, duration |-> NaN,
        tuition_per_year |-> Num(60000)],
       [id |-> 5, name |-> S_BScCS, university_id |-> 2, field |-> S_CS,
        level |-> S_Bachelor, language |-> S_GermanEnglish, duration |-> Num(3),
        tuition_per_year |-> Num(50000)],
       [id |-> 6, name |-> S_MScAI, university_id |-> 3, field |-> S_CS,
        level |-> S_Master, language |-> S_English, duration |-> Num(1),
        tuition_per_year |-> Num(20000)] >>

Min(a, b) == IF a < b THEN a ELSE b

Programs == SubSeq(AllPrograms, 1, Min(NPrograms, Len(AllPrograms)))

\* countries: name, average_living_cost
Countries ==
    << [name |-> S_USA, average_living_cost |-> Num(1800)],
       [name |-> S_UK,  average_living_cost |-> Num(1000)] >>

\* The databases a request can meet.  schema: "repo" is the schema of
\* data/initialize_database.py, whose programs table names its title column
\* name_program; "legacy" names it name, as the universities table does.
\* status: whether sqlite3.connect and the SELECTs succeed.
Databases ==
    [status : {"ok"}, schema : {"repo", "legacy"}, has_countries : BOOLEAN]
    \cup [status : {"no_connect", "load_fails"}, schema : {"repo"},
          has_countries : {FALSE}]

\* programs.merge(universities, left_on='university_id', right_on='id',
\*                suffixes=('_program', '_university')):
\* an inner join in the order of the programs; a column name the two tables
\* share gets the suffixes, so the university's name is called
\* name_university only when the programs table has a column name too
MergedColumns(schema) ==
    {"name_program", "field", "level", "language", "duration",
     "tuition_per_year", "country", "ranking_global"}
    \cup (IF schema = "legacy" THEN {"name_university"} ELSE {"name"})

RECURSIVE MergeRows(_, _)
MergeRows(programs, universities) ==
    IF programs = <<>> THEN <<>>
    ELSE LET p == Head(programs)
             match == SelectSeq(universities, LAMBDA u : u.id = p.university_id)
             joined == [i \in 1..Len(match) |->
                          [name_program     |-> p.name,
                           field            |-> p.field,
                           level            |-> p.level,
                           language         |-> p.language,
                           duration         |-> p.duration,
                           tuition_per_year |-> p.tuition_per_year,
                           university       |-> match[i].name,
                           country          |-> match[i].country,
                           ranking_global   |-> match[i].ranking_global]]
         IN  joined \o MergeRows(Tail(programs), universities)

\* the rows get the labels 0, 1, ... of a fresh index
Labelled(rows) ==
    [i \in 1..Len(rows) |-> [label |-> i - 1, row |-> rows[i]]]

Merge(schema) ==
    Table(MergedColumns(schema), Labelled(MergeRows(Programs, Universities)))

-----------------------------------------------------------------------------
(* Preference sets *)

\* the criteria, in the order of the criteria_weights dictionary
Criteria == <<"academic_fit", "tuition_cost", "living_cost",
              "university_ranking", "career_prospects", "location", "language">>

CriteriaSet == {Criteria[i] : i \in 1..Len(Criteria)}

EnglishOnly == "English only"
AnyWithEnglish == "Any language with English programs"
OpenToLearning == "Open to learning a new language"

\* A preference dictionary: keys is the set of keys it has; the field of a
\* key it lacks holds a filler that is never read.  importance_ratings are
\* the raw per-criterion importance ratings of the request contract.
Equal(r) == [c \in CriteriaSet |-> r]

Prefs(keys, fos, level, tuition, living, countries, lang, gpa, ratings) ==
    [keys |-> keys, field_of_study |-> fos, degree_level |-> level,
     max_tuition |-> tuition, max_living_expenses |-> living,
     preferred_countries |-> countries, language_preference |-> lang,
     gpa |-> gpa, importance_ratings |-> ratings]

NoPrefs == Prefs({}, <<>>, <<>>, NaN, NaN, <<>>, "", NaN, Equal(0))

\* the rating vectors drawn: all equal, and tuition rated far above the rest
RatingChoices ==
    { Equal(5), [Equal(1) EXCEPT !["tuition_cost"] = 10] }

\* well-formed requests of the API: both required keys, drawn values, the
\* optional keys present or not (a gpa comes with the equal ratings)
ApiRequests ==
    { p \in
      { Prefs({"field_of_study", "degree_level", "importance_ratings"}
              \cup (IF t = NaN THEN {} ELSE {"max_tuition"})
              \cup (IF l = NaN THEN {} ELSE {"max_living_expenses"})
              \cup (IF c = <<>> THEN {} ELSE {"preferred_countries"})
              \cup (IF lang = "" THEN {} ELSE {"language_preference"})
              \cup (IF g = NaN THEN {} ELSE {"gpa"}),
            f, S_master, t, l, c, lang, g, r) :
        f \in {S_empty, S_cs, S_msc, S_ms_dot, S_art},
        t \in {NaN, Num(0), Num(60000)},
        l \in {NaN, Num(0), Num(1500)},
        c \in {<<>>, <<S_usa>>, <<S_USA, S_UK>>},
        lang \in {"", EnglishOnly, OpenToLearning},
        g \in {NaN, Num(4)},
        r \in RatingChoices } :
      ("gpa" \in p.keys) = (p.importance_ratings = Equal(5)) }

\* requests that lack a required key
MalformedRequests ==
    { Prefs(k, S_cs, S_master, NaN, NaN, <<>>, "", NaN, Equal(5)) :
        k \in { {"degree_level", "importance_ratings"},
                {"field_of_study", "importance_ratings"},
                {"importance_ratings"} } }

\* what collect_preferences reads at the prompts: every key, a degree level
\* of the menu, a language preference of the menu; float(input()) also reads
\* "inf" (no ceiling), and int(input()) reads a rating of 0
CliRequests ==
    { Prefs({"field_of_study", "degree_level", "max_tuition",
             "max_living_expenses", "preferred_countries",
             "language_preference", "importance_ratings"},
            f, S_Master, t, l, c, lang, NaN, r) :
        f \in {S_empty, S_msc, S_art},
        t \in {Num(0), Num(60000), Inf},
        l \in {Num(0), Num(1500)},
        c \in {<<>>, <<S_USA, S_UK>>},
        lang \in {EnglishOnly, AnyWithEnglish},
        r \in RatingChoices }
    \cup
    { Prefs({"field_of_study", "degree_level", "max_tuition",
             "max_living_expenses", "preferred_countries",
             "language_preference", "importance_ratings"},
            S_msc, S_Master, Num(60000), Num(1500), <<>>, EnglishOnly, NaN,
            Equal(0)) }

\* key in preferences
Has(prefs, key) == key \in prefs.keys

\* Default criteria weights (CourseSelectionAssistant.__init__)
DefaultWeights ==
    [academic_fit       |-> Rat(20, 100),
     tuition_cost       |-> Rat(25, 100),
     living_cost        |-> Rat(10, 100),
     university_ranking |-> Rat(15, 100),
     career_prospects   |-> Rat(15, 100),
     location           |-> Rat(10, 100),
     language           |-> Rat(5, 100)]

RECURSIVE SumSeq(_)
SumSeq(s) == IF s = <<>> THEN 0 ELSE Head(s) + SumSeq(Tail(s))

RECURSIVE FSumSeq(_)
FSumSeq(s) == IF s = <<>> THEN Num(0) ELSE FAdd(Head(s), FSumSeq(Tail(s)))

\* collect_preferences, lines 143-153: the ratings typed at the prompts are
\* normalised by their sum (the caller sees ZeroDivisionError when it is 0)
TotalImportance(ratings) == SumSeq([i \in 1..Len(Criteria) |-> ratings[Criteria[i]]])

\* a variant that divides by the top of the rating scale, not by the sum
NormalisedWeights_ByScale(ratings) ==
    [c \in CriteriaSet |-> Rat(ratings[c], 10)]

NormalisedWeights(ratings) ==
    [c \in CriteriaSet |-> Rat(ratings[c], TotalImportance(ratings))]

\* validate_preferences
ValidatePreferences(prefs) ==
    \A f \in {"field_of_study", "degree_level"} : Has(prefs, f)

\* enrich_preferences: a copy with defaults for missing values
DefaultMaxTuition == 50000

EnrichPreferences(prefs) ==
    LET e1 == IF ~Has(prefs, "max_tuition")
              THEN [prefs EXCEPT !.keys = @ \cup {"max_tuition"},
                                 !.max_tuition = Num(DefaultMaxTuition)]
              ELSE prefs
        e2 == IF ~Has(e1, "preferred_countries") \/ e1.preferred_countries = <<>>
              THEN [e1 EXCEPT !.keys = @ \cup {"preferred_countries"},
                              !.preferred_countries = <<>>]
              ELSE e1
        e3 == IF ~Has(e2, "language_preference")
              THEN [e2 EXCEPT !.keys = @ \cup {"language_preference"},
                              !.language_preference = AnyWithEnglish]
              ELSE e2
    IN  e3

-----------------------------------------------------------------------------
(* CourseSelectionAssistant.filter_programs *)

\* the hard constraints, each applied when the code applies it
PassesField(prefs, r) ==
    (Has(prefs, "field_of_study") /\ prefs.field_of_study # <<>>)
        => LET f == Lower(prefs.field_of_study)
           IN  RegexSearch(Lower(r.field), f) \/ RegexSearch(Lower(r.name_program), f)

PassesLevel(prefs, r) ==
    (Has(prefs, "degree_level") /\ prefs.degree_level # <<>>)
        => Lower(r.level) = Lower(prefs.degree_level)

PassesTuition(prefs, r) ==
    Has(prefs, "max_tuition") => FLe(r.tuition_per_year, prefs.max_tuition)

PassesCountry(prefs, r) ==
    (Has(prefs, "preferred_countries") /\ prefs.preferred_countries # <<>>)
        => LET countries == [i \in 1..Len(prefs.preferred_countries) |->
                               Lower(prefs.preferred_countries[i])]
           IN  InList(Lower(r.country), countries)

\* a variant that asks for English under every language preference
PassesLanguage_AnyMode(prefs, r) ==
    Has(prefs, "language_preference") => Lower(r.language) = S_english

PassesLanguage(prefs, r) ==
    (Has(prefs, "language_preference") /\ prefs.language_preference = EnglishOnly)
        => Lower(r.language) = S_english

FilterPrograms(database, prefs) ==
    LET merged == Merge(database.schema)
        keep(x) == /\ PassesField(prefs, x.row)
                   /\ PassesLevel(prefs, x.row)
                   /\ PassesTuition(prefs, x.row)
                   /\ PassesCountry(prefs, x.row)
                   /\ PassesLanguage(prefs, x.row)
    IN  Table(merged.cols, SelectSeq(merged.rows, keep))

-----------------------------------------------------------------------------
(* CourseSelectionAssistant.score_programs and its helpers *)

\* extract_keywords: lower-case, ',' and ';' to blanks, split, words longer
\* than two characters
ExtractKeywords(text) ==
    IF text = <<>> THEN <<>>
    ELSE LET words == Split(ReplaceChar(ReplaceChar(Lower(text), ",", " "), ";", " "))
         IN  SelectSeq(words, LAMBDA w : Len(w) > 2)

\* calculate_academic_fit
CalculateAcademicFit(r, field_keywords) ==
    IF field_keywords = <<>> THEN Rat(1, 2)
    ELSE LET program_text == Lower(r.name_program \o <<" ">> \o r.field)
             matches == Len(SelectSeq(field_keywords,
                                      LAMBDA kw : Contains(program_text, kw)))
         IN  PyMin(Num(1), Rat(matches, Len(field_keywords)))

\* a variant without the tier of ranks 101 to 200
RankingScore_NoTier200(ranking) ==
    IF FLe(ranking, Num(10)) THEN Num(1)
    ELSE IF FLe(ranking, Num(50)) THEN Rat(9, 10)
    ELSE IF FLe(ranking, Num(100)) THEN Rat(8, 10)
    ELSE IF FLe(ranking, Num(500)) THEN Rat(5, 10)
    ELSE Rat(3, 10)

\* the ranking tiers of score_programs, lines 559-562
RankingScore(ranking) ==
    IF FLe(ranking, Num(10)) THEN Num(1)
    ELSE IF FLe(ranking, Num(50)) THEN Rat(9, 10)
    ELSE IF FLe(ranking, Num(100)) THEN Rat(8, 10)
    ELSE IF FLe(ranking, Num(200)) THEN Rat(7, 10)
    ELSE IF FLe(ranking, Num(500)) THEN Rat(5, 10)
    ELSE Rat(3, 10)

\* the key's value, or inf when the dictionary lacks it: .get(key, float('inf'))
MaxTuitionOf(prefs) == IF Has(prefs, "max_tuition") THEN prefs.max_tuition ELSE Inf

MaxLivingOf(prefs) ==
    IF Has(prefs, "max_living_expenses") THEN prefs.max_living_expenses ELSE Inf

\* a variant without the lower clamp max(0.0, .)
LivingCostScore_NoFloor(database, prefs, r) ==
    LET country_data == SelectSeq(Countries, LAMBDA c : c.name = r.country)
    IN  IF database.has_countries /\ country_data # <<>>
        THEN LET max_living == MaxLivingOf(prefs)
                 avg_cost == country_data[1].average_living_cost
             IN  IF FGt(max_living, Num(0))
                 THEN PyMin(Num(1), FDiv(FSub(max_living, avg_cost), max_living))
                 ELSE Rat(1, 2)
        ELSE Rat(7, 10)

\* lines 565-573: 0.7 unless the countries table has a row for the country
LivingCostScore(database, prefs, r) ==
    LET country_data == SelectSeq(Countries, LAMBDA c : c.name = r.country)
    IN  IF database.has_countries /\ country_data # <<>>
        THEN LET max_living == MaxLivingOf(prefs)
                 avg_cost == country_data[1].average_living_cost
             IN  IF FGt(max_living, Num(0))
                 THEN PyMin(Num(1), PyMax(Num(0),
                            FDiv(FSub(max_living, avg_cost), max_living)))
                 ELSE Rat(1, 2)
        ELSE Rat(7, 10)

\* line 576: a constant
CareerScore == Rat(7, 10)

\* is_in_same_region: the region table, in dictionary order
Regions ==
    << [region |-> "europe", countries |->
          << <<"g","e","r","m","a","n","y">>,
             <<"f","r","a","n","c","e">>,
             <<"i","t","a","l","y">>,
             <<"s","p","a","i","n">>,
             <<"n","e","t","h","e","r","l","a","n","d","s">>,
             <<"b","e","l","g","i","u","m">>,
             <<"a","u","s","t","r","i","a">>,
             <<"s","w","i","t","z","e","r","l","a","n","d">>,
             <<"u","k">>,
             <<"i","r","e","l","a","n","d">> >>],
       [region |-> "north_america", countries |->
          << <<"u","s","a">>,
             <<"u","n","i","t","e","d"," ","s","t","a","t","e","s">>,
             <<"c","a","n","a","d","a">>,
             <<"m","e","x","i","c","o">> >>],
       [region |-> "asia", countries |->
          << <<"c","h","i","n","a">>,
             <<"j","a","p","a","n">>,
             <<"s","o","u","t","h"," ","k","o","r","e","a">>,
             <<"s","i","n","g","a","p","o","r","e">>,
             <<"i","n","d","i","a">>,
             <<"m","a","l","a","y","s","i","a">> >>],
       [region |-> "oceania", countries |->
          << <<"a","u","s","t","r","a","l","i","a">>,
             <<"n","e","w"," ","z","e","a","l","a","n","d">> >>] >>

RegionOf(name) ==
    LET hits == SelectSeq(Regions, LAMBDA g : InList(name, g.countries))
    IN  IF hits = <<>> THEN "" ELSE hits[1].region

\* the country is lower-cased, the preferred countries are taken as given
IsInSameRegion(country, preferred_countries) ==
    LET country_region == RegionOf(Lower(country))
    IN  /\ country_region # ""
        /\ \E i \in 1..Len(preferred_countries) :
             \E j \in 1..Len(Regions) :
                /\ InList(preferred_countries[i], Regions[j].countries)
                /\ Regions[j].region = country_region

\* lines 580-588
LocationScore(prefs, r) ==
    LET preferred_countries ==
            IF Has(prefs, "preferred_countries") THEN prefs.preferred_countries
            ELSE <<>>
    IN  IF preferred_countries # <<>> /\ InList(r.country, preferred_countries)
        THEN Num(1)
        ELSE IF preferred_countries # <<>>
                /\ IsInSameRegion(r.country, preferred_countries)
        THEN Rat(7, 10)
        ELSE Rat(1, 2)

\* lines 590-599
LanguageScore(prefs, r) ==
    LET language_pref == IF Has(prefs, "language_preference")
                         THEN prefs.language_preference ELSE ""
        english == Contains(Lower(r.language), S_english)
    IN  IF language_pref = EnglishOnly
        THEN (IF english THEN Num(1) ELSE Num(0))
        ELSE IF language_pref = AnyWithEnglish
        THEN (IF english THEN Num(1) ELSE Rat(1, 2))
        ELSE Rat(8, 10)

\* calculate_confidence: the key fields that are columns of the row and hold
\* a value; 0.7 + 0.3 * valid / 6
KeyFields == <<"name_program", "name_university", "tuition_per_year",
               "ranking_global", "language", "duration">>

FieldIsValid(cols, r, f) ==
    /\ f \in cols
    /\ CASE f = "tuition_per_year" -> ~IsNaN(r.tuition_per_year)
         [] f = "ranking_global"   -> ~IsNaN(r.ranking_global)
         [] f = "duration"         -> ~IsNaN(r.duration)
         [] OTHER                  -> TRUE

CalculateConfidence(cols, r) ==
    LET valid_fields == Len(SelectSeq(KeyFields, LAMBDA f : FieldIsValid(cols, r, f)))
        confidence == Rat(valid_fields, Len(KeyFields))
    IN  FAdd(Rat(7, 10), FMul(confidence, Rat(3, 10)))

\* the seven criterion scores of one row
CriterionScores(database, prefs, r) ==
    [academic_fit       |-> CalculateAcademicFit(r,
                               ExtractKeywords(IF Has(prefs, "field_of_study")
                                               THEN prefs.field_of_study ELSE <<>>)),
     tuition_cost       |-> TuitionScore(r.tuition_per_year, MaxTuitionOf(prefs)),
     living_cost        |-> LivingCostScore(database, prefs, r),
     university_ranking |-> RankingScore(r.ranking_global),
     career_prospects   |-> CareerScore,
     location           |-> LocationScore(prefs, r),
     language           |-> LanguageScore(prefs, r)]

\* lines 604-608: final_score accumulated over the weights' criteria in order
RECURSIVE WeightedSum(_, _, _)
WeightedSum(scores, weights, i) ==
    IF i = 0 THEN Num(0)
    ELSE FAdd(WeightedSum(scores, weights, i - 1),
              FMul(scores[Criteria[i]], weights[Criteria[i]]))

\* a variant without the confidence adjustment
FinalScore_NoConfidence(scores, weights, confidence) ==
    WeightedSum(scores, weights, Len(Criteria))

\* lines 610-611
FinalScore(scores, weights, confidence) ==
    FMul(WeightedSum(scores, weights, Len(Criteria)), confidence)

\* a variant without the cap min(100, .)
MatchPercentage_Uncapped(final_score) == RoundTenths(final_score)

\* min(100, round(final_score * 100, 1)), in tenths of a percent
MatchPercentage(final_score) == Min(1000, RoundTenths(final_score))

ScoreRow(database, prefs, weights, cols, x) ==
    LET scores == CriterionScores(database, prefs, x.row)
        confidence == CalculateConfidence(cols, x.row)
        final_score == FinalScore(scores, weights, confidence)
    IN  [label |-> x.label, row |-> x.row, scores |-> scores,
         confidence |-> confidence, final_score |-> final_score,
         match_percentage |-> MatchPercentage(final_score),
         student_data_boost |-> NaN]

\* DataFrame.sort_values(by='final_score', ascending=False): the default
\* sort is not a stable one, so rows of equal final_score may come out in
\* any order
RemoveAt(s, i) == SubSeq(s, 1, i - 1) \o SubSeq(s, i + 1, Len(s))

\* a variant that leaves the rows as they are
DescendingOrders_Unsorted(rows) == {rows}

RECURSIVE DescendingOrders(_)
DescendingOrders(rows) ==
    IF rows = <<>> THEN {<<>>}
    ELSE UNION { { <<rows[i]>> \o rest : rest \in DescendingOrders(RemoveAt(rows, i)) } :
                 i \in { i \in 1..Len(rows) :
                           \A j \in 1..Len(rows) :
                              FGe(rows[i].final_score, rows[j].final_score) } }

ScoreColumns == {"academic_fit_score", "tuition_cost_score", "living_cost_score",
                 "university_ranking_score", "career_prospects_score",
                 "location_score", "language_score", "final_score",
                 "match_percentage"}

\* the tables score_programs can return (None for no candidates)
ScorePrograms(database, prefs, weights, filtered_programs) ==
    IF filtered_programs.none \/ filtered_programs.rows = <<>> THEN {NoTable}
    ELSE LET scored_rows ==
                 [i \in 1..Len(filtered_programs.rows) |->
                    ScoreRow(database, prefs, weights, filtered_programs.cols,
                             filtered_programs.rows[i])]
         IN  { Table(filtered_programs.cols \cup ScoreColumns, sorted) :
                 sorted \in DescendingOrders(scored_rows) }

-----------------------------------------------------------------------------
(* CourseSelectionAssistant.apply_diversity_boosting *)

CountryBonus == Rat(3, 100)
UniversityBonus == Rat(2, 100)
FieldBonus == Rat(1, 100)

\* a variant that stores the boost in place of the boosted score
RECURSIVE DiversityPass_Overwrite(_, _, _, _)
DiversityPass_Overwrite(rows, countries_seen, universities_seen, fields_seen) ==
    IF rows = <<>> THEN <<>>
    ELSE LET x == Head(rows)
             diversity_boost ==
                 FAdd(FAdd(IF x.row.country \notin countries_seen
                           THEN Rat(3, 100) ELSE Num(0),
                           IF x.row.university \notin universities_seen
                           THEN Rat(2, 100) ELSE Num(0)),
                      IF x.row.field \notin fields_seen THEN Rat(1, 100) ELSE Num(0))
         IN  <<[x EXCEPT !.final_score = diversity_boost,
                         !.match_percentage = RoundTenths(diversity_boost)]>>
             \o DiversityPass_Overwrite(Tail(rows),
                                        countries_seen \cup {x.row.country},
                                        universities_seen \cup {x.row.university},
                                        fields_seen \cup {x.row.field})

\* lines 233-257: one pass in table order with the three seen sets
RECURSIVE DiversityPass(_, _, _, _)
DiversityPass(rows, countries_seen, universities_seen, fields_seen) ==
    IF rows = <<>> THEN <<>>
    ELSE LET x == Head(rows)
             country == x.row.country
             university == x.row.university
             field == x.row.field
             diversity_boost ==
                 FAdd(FAdd(IF country \notin countries_seen
                           THEN CountryBonus ELSE Num(0),
                           IF university \notin universities_seen
                           THEN UniversityBonus ELSE Num(0)),
                      IF field \notin fields_seen THEN FieldBonus ELSE Num(0))
             final_score == FAdd(x.final_score, diversity_boost)
         IN  <<[x EXCEPT !.final_score = final_score,
                         !.match_percentage = MatchPercentage(final_score)]>>
             \o DiversityPass(Tail(rows), countries_seen \cup {country},
                              universities_seen \cup {university},
                              fields_seen \cup {field})

\* the tables apply_diversity_boosting can return; row['name_university']
\* raises KeyError when the table has no such column, and the except clause
\* returns the argument
ApplyDiversityBoosting(scored_programs) ==
    IF scored_programs.none \/ scored_programs.rows = <<>> THEN {scored_programs}
    ELSE IF "name_university" \notin scored_programs.cols THEN {scored_programs}
    ELSE { Table(scored_programs.cols, sorted) :
             sorted \in DescendingOrders(DiversityPass(scored_programs.rows, {}, {}, {})) }

-----------------------------------------------------------------------------
(* The historical dataset (data/student_migration_data.csv) *)

\* a missing text value
NullStr == <<"<NA>">>

\* the feature set of build_recommendation_model, lines 62-69
AllFeatureColumns == <<"current_gpa", "tuition_budget", "living_expense_budget",
                       "university_ranking_importance", "cost_sensitivity_score",
                       "career_importance_score">>

Student(id, gpa, dest, sat) ==
    [student_id |-> id, current_gpa |-> gpa,
     final_destination_country |-> dest, decision_satisfaction_score |-> sat]

\* the datasets the file can hold: a DataFrame with its columns and rows
OtherColumns == {"student_id", "final_destination_country",
                 "decision_satisfaction_score"}

Dataset(name) ==
    CASE name = "cohort" ->
           Table(OtherColumns \cup {"current_gpa"},
                 << Student(1, Num(2), S_USA, Num(8)),
                    Student(2, Num(3), S_USA, Num(5)),
                    Student(3, Num(4), S_UK, Num(9)) >>)
      [] name = "undecided" ->
           Table(OtherColumns \cup {"current_gpa"},
                 << Student(1, Num(1), S_UK, Num(7)),
                    Student(2, NaN, NullStr, Num(2)),
                    Student(3, Num(5), S_USA, Num(9)) >>)
      [] name = "class" ->
           Table(OtherColumns \cup {"current_gpa"},
                 << Student(1, Num(1), S_UK, Num(6)),
                    Student(2, Num(2), S_USA, Num(7)),
                    Student(3, Rat(5, 2), S_USA, Num(8)),
                    Student(4, Rat(5, 2), S_UK, Num(5)),
                    Student(5, Num(3), S_USA, Num(9)),
                    Student(6, Num(4), S_UK, Num(4)) >>)
      [] name = "uniform" ->
           Table(OtherColumns \cup {"current_gpa"},
                 << Student(1, Num(3), S_USA, Num(8)),
                    Student(2, Num(3), S_UK, Num(6)) >>)
      [] name = "featureless" ->
           Table(OtherColumns,
                 << Student(1, NaN, S_USA, Num(8)) >>)
      [] name = "empty" ->
           Table(OtherColumns \cup {"current_gpa"}, <<>>)

DatasetNames == {"cohort", "undecided", "uniform", "featureless", "empty"}

\* what the path holds: a dataset, or no file
Files == DatasetNames \cup {"missing"}

-----------------------------------------------------------------------------
(* StudentDataAnalyzer: load_data, build_recommendation_model *)

\* an analyzer: its four fields; None is NoTable / NoColumns / NoModel
NoColumns == [none |-> TRUE, cols |-> <<>>]
NoModel == [none |-> TRUE, n_neighbors |-> 0, fit_X |-> <<>>]

Columns(cols) == [none |-> FALSE, cols |-> cols]

Analyzer(sd, fc, nf, m) ==
    [student_data |-> sd, feature_columns |-> fc,
     normalized_features |-> nf, model |-> m]

NewAnalyzer == Analyzer(NoTable, NoColumns, NoTable, NoModel)

\* load_data: the file's DataFrame replaces student_data; without a file
\* nothing is assigned
LoadData(an, f) ==
    IF f = "missing" THEN an
    ELSE [an EXCEPT !.student_data = Dataset(f)]

\* the value of a feature column in a record
Feature(r, col) == IF col = "current_gpa" THEN r.current_gpa ELSE NaN

\* Series.mean(): the mean of the values that are not nan
ColumnMean(vals) ==
    LET present == SelectSeq(vals, LAMBDA v : ~IsNaN(v))
    IN  IF present = <<>> THEN NaN
        ELSE FDiv(FSumSeq(present), Num(Len(present)))

\* the square root of a rational that has a rational one
ISqrt(n) == CHOOSE k \in 0..n : k * k = n

FSqrt(x) == IF IsNaN(x) THEN NaN ELSE Rat(ISqrt(x.n), ISqrt(x.d))

\* Series.std(): the sample standard deviation (ddof = 1) of the values
\* that are not nan; nan for fewer than two values
ColumnStd(vals) ==
    LET present == SelectSeq(vals, LAMBDA v : ~IsNaN(v))
        m == ColumnMean(vals)
        sq == [i \in 1..Len(present) |->
                 FMul(FSub(present[i], m), FSub(present[i], m))]
    IN  IF Len(present) < 2 THEN NaN
        ELSE FSqrt(FDiv(FSumSeq(sq), Num(Len(present) - 1)))

\* x / s of numpy floats: 0/0 is nan, x/0 is inf
NpDiv(x, s) ==
    IF IsNum(s) /\ s.n = 0
    THEN (IF IsNum(x) /\ x.n # 0 THEN Inf ELSE NaN)
    ELSE FDiv(x, s)

\* a DataFrame column as a sequence
ColumnOf(rows, col) == [i \in 1..Len(rows) |-> Feature(rows[i], col)]

\* lines 79-85: features.fillna(features.mean()), then
\* (features - features.mean()) / features.std(), column by column
NormalizedColumn(vals) ==
    LET filled == [i \in 1..Len(vals) |->
                     IF IsNaN(vals[i]) THEN ColumnMean(vals) ELSE vals[i]]
        m == ColumnMean(filled)
        sd == ColumnStd(filled)
    IN  [i \in 1..Len(filled) |-> NpDiv(FSub(filled[i], m), sd)]

\* the normalized matrix: one row per record, one entry per feature column
NormalizeFeatures(data, cols) ==
    LET columns == [j \in 1..Len(cols) |-> NormalizedColumn(ColumnOf(data.rows, cols[j]))]
    IN  Table({cols[j] : j \in 1..Len(cols)},
              [i \in 1..Len(data.rows) |-> [j \in 1..Len(cols) |-> columns[j][i]]])

HasNaN(matrix) ==
    \E i \in 1..Len(matrix.rows) : \E j \in 1..Len(matrix.rows[i]) :
        ~IsNum(matrix.rows[i][j])

\* line 72: the features that are columns of the data
PresentFeatureColumns(data) ==
    SelectSeq(AllFeatureColumns, LAMBDA c : c \in data.cols)

MaxNeighbors == 10

\* line 88: NearestNeighbors(n_neighbors=min(10, len)), not fitted yet
UnfittedModel(matrix) ==
    [none |-> FALSE, n_neighbors |-> Min(MaxNeighbors, Len(matrix.rows)),
     fit_X |-> <<>>]

\* lines 88-90: the model after fit(matrix)
FitModel(matrix) ==
    [none |-> FALSE, n_neighbors |-> Min(MaxNeighbors, Len(matrix.rows)),
     fit_X |-> matrix.rows]

\* build_recommendation_model, as one call: the analyzer it leaves.
\* available: whether scikit-learn could be imported.  Each field is assigned
\* where the code assigns it; fit raises ValueError on a matrix with nan or
\* inf, after the new estimator was assigned to model, and the except clause
\* returns False.
BuildRecommendationModel(an, available) ==
    IF an.student_data.none \/ an.student_data.rows = <<>> THEN an
    ELSE IF ~available THEN an
    ELSE LET cols == PresentFeatureColumns(an.student_data)
             a1 == [an EXCEPT !.feature_columns = Columns(cols)]
             a2 == [a1 EXCEPT !.normalized_features =
                                 NormalizeFeatures(an.student_data, cols)]
         IN  IF cols = <<>> THEN a1
             ELSE IF HasNaN(a2.normalized_features)
             THEN [a2 EXCEPT !.model = UnfittedModel(a2.normalized_features)]
             ELSE [a2 EXCEPT !.model = FitModel(a2.normalized_features)]

-----------------------------------------------------------------------------
(* StudentDataAnalyzer.find_similar_students *)

\* lines 106-121: the query value of a feature column; the preference keys
\* of this model hold a value for current_gpa only (key gpa), every other
\* column and a missing key take the column mean of student_data
QueryValue(an, prefs, col) ==
    IF col = "current_gpa" /\ Has(prefs, "gpa") THEN prefs.gpa
    ELSE ColumnMean(ColumnOf(an.student_data.rows, col))

\* the squared Euclidean distance of a fitted row to the query
RECURSIVE SquaredDistance(_, _)
SquaredDistance(x, q) ==
    IF x = <<>> THEN Num(0)
    ELSE FAdd(FMul(FSub(Head(x), Head(q)), FSub(Head(x), Head(q))),
              SquaredDistance(Tail(x), Tail(q)))

\* the orders in which kneighbors can return its k nearest rows: by
\* distance, rows at equal distance in any order
RECURSIVE NearestOrders(_, _, _)
NearestOrders(candidates, dist, k) ==
    IF k = 0 \/ candidates = {} THEN {<<>>}
    ELSE UNION { { <<i>> \o rest :
                     rest \in NearestOrders(candidates \ {i}, dist, k - 1) } :
                 i \in { i \in candidates :
                           \A j \in candidates : FLe(dist[i], dist[j]) } }

\* whether the try block of find_similar_students raises: a field that is
\* None, a feature column student_data lacks, fewer columns in the
\* normalized matrix than features, a query that is not finite or not of
\* the fitted width, more neighbors asked than rows fitted (none, when the
\* estimator was never fitted)
FindRaises(an, prefs, n) ==
    \/ an.feature_columns.none
    \/ an.student_data.none
    \/ \E j \in 1..Len(an.feature_columns.cols) :
          an.feature_columns.cols[j] \notin an.student_data.cols
    \/ \E i \in 1..Len(an.normalized_features.rows) :
          Len(an.normalized_features.rows[i]) < Len(an.feature_columns.cols)
    \/ Min(n, Len(an.normalized_features.rows)) > Len(an.model.fit_X)
    \/ Min(n, Len(an.normalized_features.rows)) < 1
    \/ \E i \in 1..Len(an.model.fit_X) :
          Len(an.model.fit_X[i]) # Len(an.feature_columns.cols)

\* lines 123-126: the query is normalized with the mean and the standard
\* deviation of the normalized matrix
NormalizedQuery(an, prefs) ==
    LET cols == an.feature_columns.cols
        nf == an.normalized_features.rows
    IN  [j \in 1..Len(cols) |->
           LET column == [i \in 1..Len(nf) |-> nf[i][j]]
           IN  NpDiv(FSub(QueryValue(an, prefs, cols[j]), ColumnMean(column)),
                     ColumnStd(column))]

\* the tables find_similar_students can return (NoTable for None)
FindSimilarStudents(an, prefs, n) ==
    IF an.model.none \/ an.normalized_features.none THEN {NoTable}
    ELSE IF FindRaises(an, prefs, n) THEN {NoTable}
    ELSE LET q == NormalizedQuery(an, prefs)
             X == an.model.fit_X
             k == Min(n, Len(an.normalized_features.rows))
             dist == [i \in 1..Len(X) |-> SquaredDistance(X[i], q)]
         IN  IF \E j \in 1..Len(q) : ~IsNum(q[j]) THEN {NoTable}
             ELSE { IF \E i \in 1..Len(idx) : idx[i] > Len(an.student_data.rows)
                    THEN NoTable
                    ELSE Table(an.student_data.cols,
                               [i \in 1..Len(idx) |-> an.student_data.rows[idx[i]]]) :
                    idx \in NearestOrders(1..Len(X), dist, k) }

-----------------------------------------------------------------------------
(* StudentDataAnalyzer.enhance_recommendations *)

EnhanceNeighbors == 10
MaxPopularityBoost == Rat(5, 100)

\* value_counts(): how many of the records name the country; a missing
\* destination is not counted
DestinationCount(similar, country) ==
    Len(SelectSeq(similar.rows, LAMBDA r : r.final_destination_country = country))

\* sum(destination_counts): the records that name a destination
TotalDestinations(similar) ==
    Len(SelectSeq(similar.rows, LAMBDA r : r.final_destination_country # NullStr))

\* lines 162-177
EnhanceRow(x, similar) ==
    LET total == TotalDestinations(similar)
        popularity == Rat(DestinationCount(similar, x.row.country),
                          IF total > 1 THEN total ELSE 1)
        popularity_boost == FMul(popularity, MaxPopularityBoost)
        final_score == FAdd(x.final_score, popularity_boost)
    IN  [x EXCEPT !.student_data_boost = popularity_boost,
                  !.final_score = final_score,
                  !.match_percentage = MatchPercentage(final_score)]

\* the neighbors that went to the country and rate their decision 7 or more
SatisfiedIn(similar, country) ==
    SelectSeq(similar.rows,
              LAMBDA r : /\ r.final_destination_country = country
                         /\ FGe(r.decision_satisfaction_score, Num(7)))

\* _add_student_data_explanations, lines 218-254: on a table with a column
\* explanation, the cohort sentence is appended to the explanation of a
\* boosted row with satisfied neighbors; a table without the column is left
\* as it is (line 229)
AddStudentDataExplanations(recommendations, similar) ==
    IF "explanation" \notin recommendations.cols THEN recommendations
    ELSE Table(recommendations.cols,
               [i \in 1..Len(recommendations.rows) |->
                  LET x == recommendations.rows[i]
                  IN  IF FGt(x.student_data_boost, Num(0))
                         /\ SatisfiedIn(similar, x.row.country) # <<>>
                      THEN [x EXCEPT !.explanation =
                              Append(@, [kind |-> "cohort", num |-> Num(0),
                                         text |-> x.row.country])]
                      ELSE x])

\* a variant that hands on the None of a neighbor query without records
EnhanceRecommendations_Blocking(an, recommendations, prefs) ==
    IF recommendations.none \/ recommendations.rows = <<>> THEN {recommendations}
    ELSE UNION {
           IF similar.none \/ similar.rows = <<>> THEN {NoTable}
           ELSE { Table(recommendations.cols \cup {"student_data_boost"}, sorted) :
                    sorted \in DescendingOrders(
                       [i \in 1..Len(recommendations.rows) |->
                          EnhanceRow(recommendations.rows[i], similar)]) } :
           similar \in FindSimilarStudents(an, prefs, EnhanceNeighbors) }

\* the tables enhance_recommendations can return
EnhanceRecommendations(an, recommendations, prefs) ==
    IF recommendations.none \/ recommendations.rows = <<>> THEN {recommendations}
    ELSE IF an.student_data.none \/ an.student_data.rows = <<>> THEN {recommendations}
    ELSE UNION {
           IF similar.none \/ similar.rows = <<>> THEN {recommendations}
           ELSE IF "final_destination_country" \notin similar.cols THEN {recommendations}
           ELSE { AddStudentDataExplanations(
                      Table(recommendations.cols \cup {"student_data_boost"}, sorted),
                      similar) :
                    sorted \in DescendingOrders(
                       [i \in 1..Len(recommendations.rows) |->
                          EnhanceRow(recommendations.rows[i], similar)]) } :
           similar \in FindSimilarStudents(an, prefs, EnhanceNeighbors) }

-----------------------------------------------------------------------------
(* CourseSelectionAssistant.generate_explanations *)

TopN == 10
ExplanationLimit == 10

\* DataFrame.head(n)
HeadRows(table, n) ==
    Table(table.cols, SubSeq(table.rows, 1, Min(n, Len(table.rows))))

\* one clause of an explanation: its kind and what the text quotes
Clause(kind, num, text) == [kind |-> kind, num |-> num, text |-> text]

\* lines 629-653: the clauses of one program's explanation, in order
ExplanationOf(prefs, x) ==
    (IF FGt(x.scores.academic_fit, Rat(7, 10))
     THEN <<Clause("academic", Num(0), <<>>)>> ELSE <<>>)
    \o (IF FGt(x.scores.tuition_cost, Rat(8, 10))
        THEN <<Clause("budget", x.row.tuition_per_year, <<>>)>> ELSE <<>>)
    \o (IF FGt(x.scores.university_ranking, Rat(7, 10))
        THEN <<Clause("ranking", x.row.ranking_global, <<>>)>> ELSE <<>>)
    \o (IF Has(prefs, "preferred_countries")
           /\ InList(x.row.country, prefs.preferred_countries)
        THEN <<Clause("country", Num(0), x.row.country)>> ELSE <<>>)
    \o (IF Contains(Lower(x.row.language), S_english)
           /\ Has(prefs, "language_preference")
           /\ prefs.language_preference \in {EnglishOnly, AnyWithEnglish}
        THEN <<Clause("language", Num(0), <<>>)>> ELSE <<>>)

\* a variant that explains the first limit rows from the last one up
GenerateExplanations_Reversed(prefs, programs, limit) ==
    LET k == Min(limit, Len(programs.rows))
    IN  [i \in 1..k |-> ExplanationOf(prefs, programs.rows[k + 1 - i])]

\* one explanation per row, for the first limit rows
GenerateExplanations(prefs, programs, limit) ==
    [i \in 1..Min(limit, Len(programs.rows)) |-> ExplanationOf(prefs, programs.rows[i])]

-----------------------------------------------------------------------------
(* One recommendation request *)

Response(status, success, error, recommendations) ==
    [status |-> status, success |-> success, error |-> error,
     recommendations |-> recommendations]

NoResponse == Response("none", FALSE, "", <<>>)

\* the environments a request is drawn with: database, dataset file
Environments ==
    { <<d, f>> \in Databases \X Files :
        \/ d.status = "ok" /\ d.schema = "legacy" /\ d.has_countries
        \/ d.status = "ok" /\ d.schema = "legacy" /\ f = "cohort"
        \/ d.status = "ok" /\ d.schema = "repo" /\ d.has_countries /\ f = "cohort"
        \/ d.status = "ok" /\ d.schema = "repo" /\ ~d.has_countries /\ f = "missing"
        \/ d.status # "ok" /\ f = "cohort" }

InitAnalyzerFields ==
    /\ student_data = NoTable
    /\ feature_columns = NoColumns
    /\ normalized_features = NoTable
    /\ model = NoModel

IdleThreads ==
    /\ tpc = <<>>
    /\ tbuild = <<>>
    /\ builds = 0
    /\ origin = <<>>
    /\ observed = <<>>

IdleFunctions ==
    /\ fn_in = <<>>
    /\ fn_out = <<>>

Init ==
    /\ entry \in {"api", "cli"}
    /\ request \in (IF entry = "api" THEN ApiRequests \cup MalformedRequests
                    ELSE CliRequests)
    /\ \E e \in Environments : db = e[1] /\ file = e[2]
    /\ sklearn = TRUE
    /\ user_preferences = NoPrefs
    /\ criteria_weights = DefaultWeights
    /\ pc = IF entry = "api" THEN "boot" ELSE "start"
    /\ filtered = NoTable
    /\ scored = NoTable
    /\ boosted = NoTable
    /\ enhanced = NoTable
    /\ explanations = <<>>
    /\ response = NoResponse
    /\ InitAnalyzerFields
    /\ IdleThreads
    /\ IdleFunctions

TheAnalyzer == Analyzer(student_data, feature_columns, normalized_features, model)

SetAnalyzer(an) ==
    /\ student_data' = an.student_data
    /\ feature_columns' = an.feature_columns
    /\ normalized_features' = an.normalized_features
    /\ model' = an.model

\* app.initialize_data (at import, before any request), and lines 443-445 of
\* run: load_data, then build_recommendation_model
InitializeData ==
    /\ pc = "boot"
    /\ SetAnalyzer(BuildRecommendationModel(LoadData(TheAnalyzer, file), sklearn))
    /\ pc' = IF entry = "api" THEN "start" ELSE "collect"
    /\ UNCHANGED <<entry, request, db, user_preferences, criteria_weights,
                   filtered, scored, boosted, enhanced, explanations, response>>
    /\ UNCHANGED <<thrVars, sklearn, fnVars>>

\* get_recommendations, lines 69-79: validation, then enrichment
ApiValidate ==
    /\ pc = "start" /\ entry = "api"
    /\ IF ValidatePreferences(request)
       THEN /\ user_preferences' = EnrichPreferences(request)
            /\ pc' = "validated"
            /\ UNCHANGED response
       ELSE /\ response' = Response("400", FALSE, "Invalid preference format", <<>>)
            /\ pc' = "done"
            /\ UNCHANGED user_preferences
    /\ UNCHANGED <<entry, request, db, criteria_weights,
                   filtered, scored, boosted, enhanced, explanations>>
    /\ UNCHANGED <<anVars, thrVars, sklearn, fnVars>>

\* get_recommendations, lines 81-99: connect_to_database and load_data
ApiLoad ==
    /\ pc = "validated"
    /\ CASE db.status = "no_connect" ->
              /\ response' = Response("500", FALSE, "Failed to connect to database", <<>>)
              /\ pc' = "done"
         [] db.status = "load_fails" ->
              /\ response' = Response("500", FALSE, "Failed to load data", <<>>)
              /\ pc' = "done"
         [] OTHER ->
              /\ pc' = "loaded"
              /\ UNCHANGED response
    /\ UNCHANGED <<entry, request, db, user_preferences, criteria_weights,
                   filtered, scored, boosted, enhanced, explanations>>
    /\ UNCHANGED <<anVars, thrVars, sklearn, fnVars>>

\* run, lines 440-441: load_data
CliLoad ==
    /\ pc = "start" /\ entry = "cli"
    /\ IF db.status = "ok"
       THEN pc' = "boot" /\ UNCHANGED response
       ELSE pc' = "done" /\ response' = Response("exit", FALSE, "load_data failed", <<>>)
    /\ UNCHANGED <<entry, request, db, user_preferences, criteria_weights,
                   filtered, scored, boosted, enhanced, explanations>>
    /\ UNCHANGED <<anVars, thrVars, sklearn, fnVars>>

\* collect_preferences: the six preference keys are stored and the weights
\* become the ratings over their sum; a sum of 0 raises ZeroDivisionError
\* before any weight is assigned
CollectPreferences ==
    /\ pc = "collect"
    /\ user_preferences' =
          [request EXCEPT !.keys = @ \ {"importance_ratings", "gpa"}]
    /\ IF TotalImportance(request.importance_ratings) = 0
       THEN /\ pc' = "done"
            /\ response' = Response("crash", FALSE, "ZeroDivisionError", <<>>)
            /\ UNCHANGED criteria_weights
       ELSE /\ pc' = "loaded"
            /\ criteria_weights' = NormalisedWeights(request.importance_ratings)
            /\ UNCHANGED response
    /\ UNCHANGED <<entry, request, db, filtered, scored, boosted, enhanced,
                   explanations>>
    /\ UNCHANGED <<anVars, thrVars, sklearn, fnVars>>

\* filter_programs; run returns when nothing is left (lines 450-452)
Filter ==
    /\ pc = "loaded"
    /\ filtered' = FilterPrograms(db, user_preferences)
    /\ IF entry = "cli" /\ filtered'.rows = <<>>
       THEN pc' = "done" /\ response' = Response("exit", FALSE, "No programs match", <<>>)
       ELSE pc' = "filtered" /\ UNCHANGED response
    /\ UNCHANGED <<entry, request, db, user_preferences, criteria_weights,
                   scored, boosted, enhanced, explanations>>
    /\ UNCHANGED <<anVars, thrVars, sklearn, fnVars>>

\* score_programs
Score ==
    /\ pc = "filtered"
    /\ scored' \in ScorePrograms(db, user_preferences, criteria_weights, filtered)
    /\ pc' = "scored"
    /\ UNCHANGED <<entry, request, db, user_preferences, criteria_weights,
                   filtered, boosted, enhanced, explanations, response>>
    /\ UNCHANGED <<anVars, thrVars, sklearn, fnVars>>

\* a variant that boosts and sorts the table it was given, without a copy
Diversity_InPlace ==
    /\ pc = "scored"
    /\ boosted' \in ApplyDiversityBoosting(scored)
    /\ scored' = boosted'
    /\ pc' = "boosted"
    /\ UNCHANGED <<entry, request, db, user_preferences, criteria_weights,
                   filtered, enhanced, explanations, response>>
    /\ UNCHANGED <<anVars, thrVars, sklearn, fnVars>>

\* apply_diversity_boosting
Diversity ==
    /\ pc = "scored"
    /\ boosted' \in ApplyDiversityBoosting(scored)
    /\ pc' = "boosted"
    /\ UNCHANGED <<entry, request, db, user_preferences, criteria_weights,
                   filtered, scored, enhanced, explanations, response>>
    /\ UNCHANGED <<anVars, thrVars, sklearn, fnVars>>

\* enhance_recommendations
Enhance ==
    /\ pc = "boosted"
    /\ enhanced' \in EnhanceRecommendations(TheAnalyzer, boosted, user_preferences)
    /\ pc' = "enhanced"
    /\ UNCHANGED <<entry, request, db, user_preferences, criteria_weights,
                   filtered, scored, boosted, explanations, response>>
    /\ UNCHANGED <<anVars, thrVars, sklearn, fnVars>>

\* get_recommendations, line 114: enhanced_programs.head(10) raises
\* AttributeError when enhanced_programs is None, and the handler's except
\* clause answers 500
Explain ==
    /\ pc = "enhanced" /\ entry = "api"
    /\ IF enhanced.none
       THEN /\ response' = Response("500", FALSE, "AttributeError", <<>>)
            /\ pc' = "done"
            /\ UNCHANGED explanations
       ELSE /\ explanations' = GenerateExplanations(user_preferences,
                                   HeadRows(enhanced, TopN), ExplanationLimit)
            /\ pc' = "explained"
            /\ UNCHANGED response
    /\ UNCHANGED <<entry, request, db, user_preferences, criteria_weights,
                   filtered, scored, boosted, enhanced>>
    /\ UNCHANGED <<anVars, thrVars, sklearn, fnVars>>

\* get_recommendations, lines 116-139: the top rows, each with its
\* explanation, in a success response
ApiRespond ==
    /\ pc = "explained"
    /\ LET top_programs == HeadRows(enhanced, TopN)
           result == [i \in 1..Len(top_programs.rows) |->
                        [program |-> top_programs.rows[i],
                         explanation |-> IF i <= Len(explanations)
                                         THEN explanations[i] ELSE <<>>]]
       IN  response' = Response("200", TRUE, "", result)
    /\ pc' = "done"
    /\ UNCHANGED <<entry, request, db, user_preferences, criteria_weights,
                   filtered, scored, boosted, enhanced, explanations>>
    /\ UNCHANGED <<anVars, thrVars, sklearn, fnVars>>

\* run, line 462: display_recommendations reads row['name_university'] of
\* each top row, which raises KeyError when the table has no such column
CliDisplay ==
    /\ pc = "enhanced" /\ entry = "cli"
    /\ response' =
          IF enhanced.none \/ enhanced.rows = <<>>
          THEN Response("exit", TRUE, "No recommendations available", <<>>)
          ELSE IF "name_university" \notin enhanced.cols
          THEN Response("crash", FALSE, "KeyError", <<>>)
          ELSE Response("displayed", TRUE, "",
                        [i \in 1..Len(HeadRows(enhanced, TopN).rows) |->
                           [program |-> HeadRows(enhanced, TopN).rows[i],
                            explanation |-> <<>>]])
    /\ pc' = "done"
    /\ UNCHANGED <<entry, request, db, user_preferences, criteria_weights,
                   filtered, scored, boosted, enhanced, explanations>>
    /\ UNCHANGED <<anVars, thrVars, sklearn, fnVars>>

Next ==
    \/ InitializeData
    \/ ApiValidate
    \/ ApiLoad
    \/ CliLoad
    \/ CollectPreferences
    \/ Filter
    \/ Score
    \/ Diversity
    \/ Enhance
    \/ Explain
    \/ ApiRespond
    \/ CliDisplay

Spec == Init /\ [][Next]_vars


-----------------------------------------------------------------------------
(* Properties of one recommendation request *)

\* the sum of a weight dictionary over the seven criteria
WeightTotal(weights) ==
    FSumSeq([i \in 1..Len(Criteria) |-> weights[Criteria[i]]])

\* 0 <= x <= 1 of a number that is neither nan nor inf
InUnit(x) == IsNum(x) /\ 0 <= x.n /\ x.n <= x.d

\* score_programs has run on at least one candidate
Scored == ~scored.none /\ scored.rows # <<>>

\* the request ended in an error outcome of the API
HardError == pc = "done" /\ entry = "api" /\ ~response.success

\* C1: a request of get_recommendations whose filter leaves no candidate
\* ends in a success response with an empty recommendation list, never in
\* an error.
C1_EmptyFilterIsSuccess ==
    (entry = "api" /\ pc = "done" /\ ~filtered.none /\ filtered.rows = <<>>)
        => (response.success /\ response.status = "200"
            /\ response.recommendations = <<>>)

\* C2: a request without field_of_study or degree_level is answered with the
\* validation error before any step has run, and no other request ends in
\* a hard error.
C2_OnlyMissingFieldIsHardError ==
    /\ (pc = "done" /\ entry = "api" /\ ~ValidatePreferences(request))
          => (response.status = "400" /\ filtered.none /\ scored.none
              /\ user_preferences = NoPrefs)
    /\ HardError => ~ValidatePreferences(request)

\* the index is whole: nothing is set, or the four fields are those of one
\* successful build of the data held
IndexUnset ==
    student_data.none /\ feature_columns.none /\ normalized_features.none
    /\ model.none

IndexOfOneBuild ==
    /\ ~student_data.none /\ ~feature_columns.none
    /\ ~normalized_features.none /\ ~model.none
    /\ feature_columns.cols = PresentFeatureColumns(student_data)
    /\ normalized_features = NormalizeFeatures(student_data, feature_columns.cols)
    /\ model = FitModel(normalized_features)

\* C3: after load_data and build_recommendation_model have returned, the
\* fields student_data, feature_columns, normalized_features and model all
\* belong to one successful build, or all are unset.
C3_RebuildIsAtomic ==
    pc # "boot" => (IndexUnset \/ IndexOfOneBuild)

\* C5: whenever score_programs runs, the criterion weights sum to 1, with
\* the default weights and with the weights collect_preferences derives.
C5_WeightsSumToOne ==
    pc \in {"filtered", "scored"} => WeightTotal(criteria_weights) = Num(1)

C5_Witness ==
    /\ pc = "scored" /\ Scored /\ entry = "cli"
    /\ criteria_weights # DefaultWeights
    /\ request.importance_ratings # Equal(5)

\* C6: the weights the scorer applies to a request of the API are the
\* request's importance ratings over their sum.
C6_WeightsFromRatings ==
    (entry = "api" /\ pc = "scored" /\ Scored)
        => criteria_weights = NormalisedWeights(request.importance_ratings)

\* C7: every sub-score of a scored candidate lies in [0,1] and its
\* confidence in [0.7,1.0], whatever the ceilings are.
C7_ScoresInRange ==
    \A i \in 1..Len(scored.rows) :
        /\ \A c \in CriteriaSet : InUnit(scored.rows[i].scores[c])
        /\ IsNum(scored.rows[i].confidence)
        /\ FLe(Rat(7, 10), scored.rows[i].confidence)
        /\ FLe(scored.rows[i].confidence, Num(1))

\* candidates scored with a tuition ceiling of 0 and no living-cost ceiling,
\* the living costs of their country known
C7_Witness ==
    /\ Scored
    /\ user_preferences.max_tuition = Num(0)
    /\ ~Has(user_preferences, "max_living_expenses")
    /\ db.has_countries
    /\ \E i \in 1..Len(scored.rows) : scored.rows[i].row.country = S_USA

\* C8: final_score is the confidence times the sum over the criteria of
\* sub-score times weight, and match_percentage is
\* min(100, round(final_score * 100, 1)).
C8_FinalScoreFormula ==
    \A i \in 1..Len(scored.rows) :
        LET x == scored.rows[i]
            products == [j \in 1..Len(Criteria) |->
                           FMul(x.scores[Criteria[j]], criteria_weights[Criteria[j]])]
            rounded == RoundHalfEven(FMul(x.final_score, Num(1000)))
        IN  /\ x.confidence = CalculateConfidence(scored.cols, x.row)
            /\ x.final_score = FMul(x.confidence, FSumSeq(products))
            /\ x.match_percentage = IF rounded > 1000 THEN 1000 ELSE rounded

\* two candidates scored, one of them with a confidence below 1
C8_Witness ==
    /\ Scored /\ Len(scored.rows) >= 2
    /\ \E i \in 1..Len(scored.rows) : FLt(scored.rows[i].confidence, Num(1))

\* match_percentage of a row is round(min(1, final_score) * 100, 1), which
\* is at most 100
CappedPercentage(x) ==
    /\ x.match_percentage <= 1000
    /\ x.match_percentage =
          RoundHalfEven(FMul(IF FLt(Num(1), x.final_score) THEN Num(1)
                             ELSE x.final_score, Num(1000)))

\* C9: after scoring, after diversity boosting and after cohort enhancement,
\* every candidate's match_percentage is at most 100 and equals
\* round(min(1, final_score) * 100, 1) of its current final_score.
C9_MatchPercentageCapped ==
    /\ \A i \in 1..Len(scored.rows) : CappedPercentage(scored.rows[i])
    /\ \A i \in 1..Len(boosted.rows) : CappedPercentage(boosted.rows[i])
    /\ \A i \in 1..Len(enhanced.rows) : CappedPercentage(enhanced.rows[i])

\* the boosts have pushed a candidate's final_score above 1
C9_Witness ==
    /\ pc = "enhanced"
    /\ \E i \in 1..Len(enhanced.rows) :
          /\ FLt(Num(1), enhanced.rows[i].final_score)
          /\ enhanced.rows[i].match_percentage = 1000
          /\ IsNum(enhanced.rows[i].student_data_boost)

\* apply_diversity_boosting has run on at least one candidate
Boosted == ~boosted.none /\ boosted.rows # <<>>

\* the labels of a table's rows, in order
LabelsOf(table) == [i \in 1..Len(table.rows) |-> table.rows[i].label]

\* the row of a table that carries the label
RowOf(table, label) ==
    table.rows[CHOOSE i \in 1..Len(table.rows) : table.rows[i].label = label]

\* the two tables hold the same candidates, each once
SameCandidates(t1, t2) ==
    /\ Len(t1.rows) = Len(t2.rows)
    /\ \A i \in 1..Len(t1.rows) :
          Cardinality({j \in 1..Len(t2.rows) :
                         t2.rows[j].label = t1.rows[i].label}) = 1
    /\ \A i \in 1..Len(t1.rows) :
          RowOf(t2, t1.rows[i].label).row = t1.rows[i].row

\* the bonuses a pass can add: 0.00, 0.01, ..., 0.06
DiversityBonuses == {Rat(h, 100) : h \in 0..6}

\* C13: apply_diversity_boosting returns exactly the candidates it was
\* given, each with its final_score raised by 0, 0.01, ..., or 0.06, never
\* lowered.
C13_DiversityNeverDecreases ==
    Boosted =>
        /\ SameCandidates(scored, boosted)
        /\ \A i \in 1..Len(scored.rows) :
              LET before == scored.rows[i].final_score
                  after == RowOf(boosted, scored.rows[i].label).final_score
              IN  /\ FLe(before, after)
                  /\ FSub(after, before) \in DiversityBonuses

\* one candidate took all three bonuses, another one none
C13_Witness ==
    /\ Boosted
    /\ \E i, j \in 1..Len(scored.rows) :
          /\ FSub(RowOf(boosted, scored.rows[i].label).final_score,
                  scored.rows[i].final_score) = Rat(6, 100)
          /\ RowOf(boosted, scored.rows[j].label).final_score
                = scored.rows[j].final_score

\* the bonus, in hundredths, that the first-occurrence rule gives the row at
\* position i of the pass's input
FirstOccurrenceBonus(table, i) ==
    LET x == table.rows[i].row
        first(seen) == IF seen THEN 0 ELSE 1
    IN  3 * first(\E j \in 1..(i - 1) : table.rows[j].row.country = x.country)
        + 2 * first(\E j \in 1..(i - 1) : table.rows[j].row.university = x.university)
        + first(\E j \in 1..(i - 1) : table.rows[j].row.field = x.field)

\* C14: in apply_diversity_boosting the first candidate, in input order, of
\* each country takes +0.03, of each university +0.02, of each field +0.01,
\* and a candidate repeating a value takes no bonus of that kind.
C14_FirstOccurrenceTakesBonus ==
    Boosted =>
        \A i \in 1..Len(scored.rows) :
            RowOf(boosted, scored.rows[i].label).final_score
                = FAdd(scored.rows[i].final_score,
                       Rat(FirstOccurrenceBonus(scored, i), 100))

\* the same, for catalogs whose merged table has the column name_university
C14_OnLegacyCatalog ==
    db.schema = "legacy" => C14_FirstOccurrenceTakesBonus

\* enhance_recommendations has run on at least one candidate
Enhanced == ~enhanced.none /\ enhanced.rows # <<>>

\* where the candidate with the label stands in a table
PositionOf(table, label) ==
    CHOOSE i \in 1..Len(table.rows) : table.rows[i].label = label

\* candidates of equal final_score in the output stand in the order they
\* had in the input
TiesKeepOrder(input, output) ==
    \A i, j \in 1..Len(output.rows) :
        (i < j /\ output.rows[i].final_score = output.rows[j].final_score)
            => PositionOf(input, output.rows[i].label)
                  < PositionOf(input, output.rows[j].label)

\* C15: the sorts by final_score of score_programs, apply_diversity_boosting
\* and enhance_recommendations are stable: candidates of equal final_score
\* keep the relative order of the stage's input.
C15_SortsAreStable ==
    /\ Scored => TiesKeepOrder(filtered, scored)
    /\ Boosted => TiesKeepOrder(scored, boosted)
    /\ Enhanced => TiesKeepOrder(boosted, enhanced)

\* no row of the table has a final_score above that of a row before it
NonIncreasing(table) ==
    \A i \in 1..(Len(table.rows) - 1) :
        /\ IsNum(table.rows[i].final_score)
        /\ IsNum(table.rows[i + 1].final_score)
        /\ FLe(table.rows[i + 1].final_score, table.rows[i].final_score)

\* C16: the tables returned by score_programs, apply_diversity_boosting and
\* enhance_recommendations are in non-increasing order of final_score, also
\* when a stage returns its argument after an early return or a caught error.
C16_TablesAreSorted ==
    /\ NonIncreasing(scored)
    /\ NonIncreasing(boosted)
    /\ NonIncreasing(enhanced)

\* three candidates enhanced by the cohort, the diversity pass having
\* changed their order
C16_Witness ==
    /\ pc = "enhanced" /\ Len(enhanced.rows) >= 3
    /\ LabelsOf(boosted) # LabelsOf(scored)
    /\ \E i \in 1..Len(enhanced.rows) :
          FLt(Num(0), enhanced.rows[i].student_data_boost)
    /\ \E i \in 1..(Len(enhanced.rows) - 1) :
          FLt(enhanced.rows[i + 1].final_score, enhanced.rows[i].final_score)

\* enhance_recommendations has applied the cohort boost
CohortBoostApplied ==
    pc = "enhanced" /\ Enhanced /\ "student_data_boost" \in enhanced.cols

\* how many of the retrieved neighbors went to the country
NeighborsIn(similar, country) ==
    Cardinality({k \in 1..Len(similar.rows) :
                   similar.rows[k].final_destination_country = country})

\* C17: the cohort boost of a candidate is the number of retrieved neighbors
\* whose destination is the candidate's country, over the number of
\* retrieved neighbors, times 0.05, also when some neighbors have no
\* destination; every boost lies in [0, 0.05].
C17_BoostIsNeighborShare ==
    CohortBoostApplied =>
        \E similar \in FindSimilarStudents(TheAnalyzer, user_preferences,
                                           EnhanceNeighbors) :
            /\ similar.rows # <<>>
            /\ \A i \in 1..Len(enhanced.rows) :
                  LET x == enhanced.rows[i]
                  IN  /\ x.student_data_boost
                            = FMul(Rat(NeighborsIn(similar, x.row.country),
                                       Len(similar.rows)),
                                   Rat(5, 100))
                      /\ FLe(Num(0), x.student_data_boost)
                      /\ FLe(x.student_data_boost, Rat(5, 100))

\* the same, for cohorts in which every neighbor has a destination
C17_OnDecidedCohort ==
    (\A k \in 1..Len(student_data.rows) :
        student_data.rows[k].final_destination_country # NullStr)
        => C17_BoostIsNeighborShare

\* the cohort index was never built: no estimator was ever assigned
IndexNeverBuilt == model.none

\* the build failed in fit: the estimator assigned was never fitted
IndexBuildFailed == ~model.none /\ model.fit_X = <<>>

\* the neighbor query of this request yields no records
NoNeighbors ==
    \A similar \in FindSimilarStudents(TheAnalyzer, user_preferences,
                                       EnhanceNeighbors) :
        similar.none \/ similar.rows = <<>>

\* C18: when the cohort index was never built, its build failed or the
\* neighbor query yields no records, enhance_recommendations returns its
\* input table as it is (same candidates, order, final_score and
\* match_percentage), and the request goes on to the explanations and is
\* answered with success.
C18_EnhancementIsOptional ==
    /\ (pc \in {"enhanced", "explained", "done"} /\ Boosted
          /\ (IndexNeverBuilt \/ IndexBuildFailed \/ NoNeighbors))
         => /\ enhanced = boosted
            /\ (entry = "api" /\ pc = "explained")
                  => Len(explanations) = Min(TopN, Len(boosted.rows))
            /\ (entry = "api" /\ pc = "done")
                  => response.status = "200" /\ response.success

C18_Witness ==
    /\ entry = "api" /\ pc = "done" /\ Boosted
    /\ IndexBuildFailed
    /\ Len(enhanced.rows) >= 2
    /\ Len(response.recommendations) = Len(boosted.rows)

\* the request was answered with recommendations
Answered ==
    entry = "api" /\ pc = "done" /\ response.status = "200"
    /\ response.recommendations # <<>>

\* C22: generate_explanations returns one explanation for each of the
\* first min(limit, number of candidates) rows, in table order: the
\* explanation of the i-th recommendation of the response is the one of
\* the i-th candidate of the final, cohort-enhanced and re-sorted table.
C22_ExplanationsAligned ==
    /\ (entry = "api" /\ pc \in {"explained", "done"} /\ Enhanced
          /\ (pc = "done" => response.status = "200"))
         => /\ Len(explanations) = Min(ExplanationLimit, Len(enhanced.rows))
            /\ \A i \in 1..Len(explanations) :
                  explanations[i] = ExplanationOf(user_preferences, enhanced.rows[i])
    /\ Answered
         => /\ Len(response.recommendations) = Min(TopN, Len(enhanced.rows))
            /\ \A i \in 1..Len(response.recommendations) :
                  /\ response.recommendations[i].program = enhanced.rows[i]
                  /\ response.recommendations[i].explanation
                        = ExplanationOf(user_preferences, enhanced.rows[i])

C22_Witness ==
    /\ Answered
    /\ Len(response.recommendations) >= 3
    /\ LabelsOf(enhanced) # LabelsOf(boosted)
    /\ response.recommendations[1].explanation
          # response.recommendations[Len(response.recommendations)].explanation

\* C23: a candidate of the response that received a positive cohort boost
\* and whose country was the destination of a retrieved neighbor with
\* satisfaction 7 or more has the cohort-satisfaction sentence in its
\* explanation.
C23_CohortSentenceAppended ==
    Answered =>
        \A i \in 1..Len(response.recommendations) :
            LET rec == response.recommendations[i]
            IN  (/\ "student_data_boost" \in enhanced.cols
                 /\ FGt(rec.program.student_data_boost, Num(0))
                 /\ \E similar \in FindSimilarStudents(TheAnalyzer, user_preferences,
                                                       EnhanceNeighbors) :
                       ~similar.none
                       /\ SatisfiedIn(similar, rec.program.row.country) # <<>>)
                => \E c \in 1..Len(rec.explanation) :
                       rec.explanation[c].kind = "cohort"

\* filter_programs has returned
Filtered == ~filtered.none

\* the catalog items of the request, in catalog order
CatalogItems == Merge(db.schema).rows

\* the constraints as the contract states them, of a catalog item
FieldContained(r) ==
    user_preferences.field_of_study = <<>>
    \/ \E text \in {r.field, r.name_program} :
          Contains(Lower(text), Lower(user_preferences.field_of_study))

LevelEqualIgnoringCase(r) ==
    Lower(r.level) = Lower(user_preferences.degree_level)

CostWithinCeiling(r) ==
    FLe(r.tuition_per_year, user_preferences.max_tuition)

CountryPreferred(r) ==
    user_preferences.preferred_countries = <<>>
    \/ \E i \in 1..Len(user_preferences.preferred_countries) :
          Lower(user_preferences.preferred_countries[i]) = Lower(r.country)

LanguageAllowed(r) ==
    user_preferences.language_preference = EnglishOnly
        => Lower(r.language) = S_english

\* C24: with an empty preferred-countries list and the preference 'Open to
\* learning a new language', filter_programs returns exactly the candidates
\* that pass the field, degree-level and cost filters: none is removed for
\* its country or its language.
C24_NoLocationOrLanguageFilter ==
    (/\ Filtered
     /\ user_preferences.preferred_countries = <<>>
     /\ user_preferences.language_preference = OpenToLearning)
        => filtered.rows
              = SelectSeq(CatalogItems,
                          LAMBDA x : /\ PassesField(user_preferences, x.row)
                                     /\ PassesLevel(user_preferences, x.row)
                                     /\ PassesTuition(user_preferences, x.row))

C24_Witness ==
    /\ Filtered /\ entry = "api"
    /\ user_preferences.preferred_countries = <<>>
    /\ user_preferences.language_preference = OpenToLearning
    /\ \E i \in 1..Len(filtered.rows) :
          /\ Lower(filtered.rows[i].row.language) # S_english
          /\ filtered.rows[i].row.country = S_Italy

\* the items that satisfy every constraint, in catalog order
Satisfying ==
    SelectSeq(CatalogItems,
              LAMBDA x : /\ FieldContained(x.row)
                         /\ LevelEqualIgnoringCase(x.row)
                         /\ CostWithinCeiling(x.row)
                         /\ CountryPreferred(x.row)
                         /\ LanguageAllowed(x.row))

\* C25: filter_programs returns exactly the catalog items that satisfy all
\* active hard constraints, in catalog order: field text contained,
\* ignoring case, in the field or the title, degree level equal (letter
\* case ignored), cost within the ceiling, country in the preferred set,
\* ignoring case, when the set is not empty, language English under
\* 'English only'.
C25_FilterIsExact ==
    Filtered => filtered.rows = Satisfying

\* the same, for a field text without a regular-expression metacharacter
C25_OnLiteralField ==
    (\A i \in 1..Len(user_preferences.field_of_study) :
        user_preferences.field_of_study[i] # ".")
        => C25_FilterIsExact

\* C27: each stage leaves its input unchanged: when score_programs,
\* apply_diversity_boosting or enhance_recommendations returns, normally or
\* through its error path, the table passed in has the rows, order,
\* final_score and match_percentage it had, and the catalog, the
\* preference set and the fields of the cohort index are unchanged.
C27_StagesLeaveInput ==
    [][ /\ (pc = "filtered" /\ pc' # pc) => filtered' = filtered
        /\ (pc = "scored" /\ pc' # pc)
              => (filtered' = filtered /\ scored' = scored)
        /\ (pc = "boosted" /\ pc' # pc)
              => (filtered' = filtered /\ scored' = scored /\ boosted' = boosted)
        /\ (pc \in {"filtered", "scored", "boosted"})
              => UNCHANGED <<db, request, user_preferences, criteria_weights,
                             student_data, feature_columns,
                             normalized_features, model>> ]_vars

C27_Witness ==
    /\ pc = "enhanced" /\ Enhanced
    /\ LabelsOf(scored) # LabelsOf(filtered)
    /\ LabelsOf(boosted) # LabelsOf(scored)
    /\ enhanced # boosted
    /\ \E i \in 1..Len(boosted.rows) :
          boosted.rows[i].final_score
             # RowOf(scored, boosted.rows[i].label).final_score

\* score_programs has returned a table
WasScored == ~scored.none /\ scored.rows # <<>>

\* the keywords of the field-of-study preference
FieldKeywords == ExtractKeywords(user_preferences.field_of_study)

\* C28: of every candidate that survives filter_programs with a non-empty
\* field-of-study preference, academic_fit is 1.0 when the preference text
\* yields a keyword (a word longer than two characters) and 0.5 when it
\* yields none; never a value between them or below 0.5.
C28_AcademicFitOfSurvivors ==
    (WasScored /\ user_preferences.field_of_study # <<>>)
        => \A i \in 1..Len(scored.rows) :
              scored.rows[i].scores.academic_fit
                 = IF FieldKeywords # <<>> THEN Num(1) ELSE Rat(1, 2)

\* the same, for a field text without a regular-expression metacharacter
C28_OnLiteralField ==
    (\A i \in 1..Len(user_preferences.field_of_study) :
        user_preferences.field_of_study[i] # ".")
        => C28_AcademicFitOfSurvivors

\* C29: when the preferred-countries set is not empty, every candidate that
\* survives filter_programs gets location_fit 1.0 in score_programs, in
\* whatever letter case the preferred countries were given.
C29_SurvivorsAreInPreferredCountry ==
    (WasScored /\ user_preferences.preferred_countries # <<>>)
        => \A i \in 1..Len(scored.rows) :
              scored.rows[i].scores.location = Num(1)

\* the same, for preferred countries written as the catalog writes them
C29_OnCatalogSpelling ==
    (\A i \in 1..Len(user_preferences.preferred_countries) :
        \E j \in 1..Len(Universities) :
            Universities[j].country = user_preferences.preferred_countries[i])
        => C29_SurvivorsAreInPreferredCountry

\* the candidate ranked first in the input of apply_diversity_boosting, as
\* it stands in the output
TopAfterBoost == RowOf(boosted, scored.rows[1].label)

\* C30: the candidate ranked first in the input of apply_diversity_boosting
\* always receives the full bonus 0.06 and still has the maximal
\* final_score in the output: no candidate of the output has a strictly
\* higher final_score.
C30_TopKeepsMaximalScore ==
    (Boosted /\ WasScored)
        => /\ TopAfterBoost.final_score
                 = FAdd(scored.rows[1].final_score, Rat(6, 100))
           /\ \A j \in 1..Len(boosted.rows) :
                 FLe(boosted.rows[j].final_score, TopAfterBoost.final_score)

\* the same, on a catalog whose merged table has the column name_university
C30_OnLegacyCatalog ==
    db.schema = "legacy" => C30_TopKeepsMaximalScore

-----------------------------------------------------------------------------
(* Concurrent requests on the shared analyzer (app.student_analyzer).  The  *)
(* server handles each request on a thread of its own; the analyzer has no  *)
(* lock.  A rebuild is followed statement by statement, a read of the index *)
(* by find_similar_students is taken as one step.                           *)

NThreads == 2
MaxBuilds == 3

Threads == 1..NThreads

IndexFields == {"student_data", "feature_columns", "normalized_features", "model"}

\* the datasets the file holds while the server runs
IndexFiles == {"missing", "cohort", "undecided"}

\* no request in progress
IdleRequest ==
    /\ entry = "none"
    /\ request = NoPrefs
    /\ db = [status |-> "ok", schema |-> "repo", has_countries |-> FALSE]
    /\ user_preferences = NoPrefs
    /\ criteria_weights = DefaultWeights
    /\ pc = "idle"
    /\ filtered = NoTable
    /\ scored = NoTable
    /\ boosted = NoTable
    /\ enhanced = NoTable
    /\ explanations = <<>>
    /\ response = NoResponse

NoObservation == [by |-> "none", origin |-> [f \in IndexFields |-> 0]]

\* the server after app.initialize_data: the index of the file found at
\* start-up is rebuild 1; origin names, per field, the rebuild that assigned
\* it (0: never assigned)
InitIndex ==
    /\ IdleRequest
    /\ IdleFunctions
    /\ sklearn = TRUE
    /\ file \in IndexFiles
    /\ LET an == BuildRecommendationModel(LoadData(NewAnalyzer, file), sklearn)
       IN  /\ student_data = an.student_data
           /\ feature_columns = an.feature_columns
           /\ normalized_features = an.normalized_features
           /\ model = an.model
           /\ origin = [f \in IndexFields |-> IF an[f].none THEN 0 ELSE 1]
    /\ builds = 1
    /\ tpc = [t \in Threads |-> "idle"]
    /\ tbuild = [t \in Threads |-> 0]
    /\ observed = [t \in Threads |-> NoObservation]

\* get_similar_students, line 258: the data is loaded and the model built
\* when student_data is None
SimilarStart(t) ==
    /\ tpc[t] = "idle"
    /\ IF student_data.none
       THEN /\ builds < MaxBuilds
            /\ builds' = builds + 1
            /\ tbuild' = [tbuild EXCEPT ![t] = builds + 1]
            /\ tpc' = [tpc EXCEPT ![t] = "load"]
       ELSE /\ tpc' = [tpc EXCEPT ![t] = "find"]
            /\ UNCHANGED <<builds, tbuild>>
    /\ UNCHANGED <<pipeVars, anVars, file, origin, observed, sklearn, fnVars>>

\* load_data: student_data is assigned when the file exists
SimilarLoad(t) ==
    /\ tpc[t] = "load"
    /\ IF file = "missing"
       THEN UNCHANGED <<student_data, origin>>
       ELSE /\ student_data' = Dataset(file)
            /\ origin' = [origin EXCEPT !["student_data"] = tbuild[t]]
    /\ tpc' = [tpc EXCEPT ![t] = "build"]
    /\ UNCHANGED <<pipeVars, feature_columns, normalized_features, model,
                   file, tbuild, builds, observed, sklearn, fnVars>>

\* build_recommendation_model, lines 52-58: the early returns
BuildStart(t) ==
    /\ tpc[t] = "build"
    /\ tpc' = [tpc EXCEPT ![t] =
                 IF student_data.none \/ student_data.rows = <<>> \/ ~sklearn
                 THEN "find" ELSE "columns"]
    /\ UNCHANGED <<pipeVars, anVars, file, tbuild, builds, origin, observed,
                   sklearn, fnVars>>

\* lines 62-76: feature_columns is assigned
BuildColumns(t) ==
    /\ tpc[t] = "columns"
    /\ IF student_data.none
       THEN /\ tpc' = [tpc EXCEPT ![t] = "find"]
            /\ UNCHANGED <<feature_columns, origin>>
       ELSE /\ feature_columns' = Columns(PresentFeatureColumns(student_data))
            /\ origin' = [origin EXCEPT !["feature_columns"] = tbuild[t]]
            /\ tpc' = [tpc EXCEPT ![t] =
                         IF feature_columns'.cols = <<>> THEN "find" ELSE "normalize"]
    /\ UNCHANGED <<pipeVars, student_data, normalized_features, model,
                   file, tbuild, builds, observed, sklearn, fnVars>>

\* lines 79-85: normalized_features is assigned from the student_data and
\* the feature_columns the analyzer holds now; a feature the data lacks
\* raises KeyError
BuildNormalize(t) ==
    /\ tpc[t] = "normalize"
    /\ IF \/ student_data.none \/ feature_columns.none
          \/ \E j \in 1..Len(feature_columns.cols) :
                feature_columns.cols[j] \notin student_data.cols
       THEN /\ tpc' = [tpc EXCEPT ![t] = "find"]
            /\ UNCHANGED <<normalized_features, origin>>
       ELSE /\ normalized_features' =
                  NormalizeFeatures(student_data, feature_columns.cols)
            /\ origin' = [origin EXCEPT !["normalized_features"] = tbuild[t]]
            /\ tpc' = [tpc EXCEPT ![t] = "fit"]
    /\ UNCHANGED <<pipeVars, student_data, feature_columns, model,
                   file, tbuild, builds, observed, sklearn, fnVars>>

\* lines 88-90: model is assigned and fitted on the normalized_features the
\* analyzer holds now
BuildFit(t) ==
    /\ tpc[t] = "fit"
    /\ model' = IF normalized_features.none \/ HasNaN(normalized_features)
                THEN UnfittedModel(normalized_features)
                ELSE FitModel(normalized_features)
    /\ origin' = [origin EXCEPT !["model"] = tbuild[t]]
    /\ tpc' = [tpc EXCEPT ![t] = "find"]
    /\ UNCHANGED <<pipeVars, student_data, feature_columns, normalized_features,
                   file, tbuild, builds, observed, sklearn, fnVars>>

\* get_similar_students, line 266: find_similar_students reads the index
SimilarFind(t) ==
    /\ tpc[t] = "find"
    /\ observed' = [observed EXCEPT ![t] =
                      [by |-> "find_similar_students", origin |-> origin]]
    /\ tpc' = [tpc EXCEPT ![t] = "idle"]
    /\ UNCHANGED <<pipeVars, anVars, file, tbuild, builds, origin, sklearn, fnVars>>

\* get_recommendations, line 111: enhance_recommendations reads the index
RecommendEnhance(t) ==
    /\ tpc[t] = "idle"
    /\ observed' = [observed EXCEPT ![t] =
                      [by |-> "enhance_recommendations", origin |-> origin]]
    /\ UNCHANGED <<pipeVars, anVars, file, tpc, tbuild, builds, origin,
                   sklearn, fnVars>>

\* the dataset file is written, replaced or removed while the server runs
ReplaceFile ==
    /\ file' \in IndexFiles \ {file}
    /\ UNCHANGED <<pipeVars, anVars, tpc, tbuild, builds, origin, observed,
                   sklearn, fnVars>>

NextIndex ==
    \/ \E t \in Threads : SimilarStart(t)
    \/ \E t \in Threads : SimilarLoad(t)
    \/ \E t \in Threads : BuildStart(t)
    \/ \E t \in Threads : BuildColumns(t)
    \/ \E t \in Threads : BuildNormalize(t)
    \/ \E t \in Threads : BuildFit(t)
    \/ \E t \in Threads : SimilarFind(t)
    \/ \E t \in Threads : RecommendEnhance(t)
    \/ ReplaceFile

SpecIndex == InitIndex /\ [][NextIndex]_vars

\* C4: whatever the interleaving of the requests, the index a reader
\* (find_similar_students, enhance_recommendations) observes has its data,
\* feature columns, normalized matrix and model from one build.
C4_ReadersSeeOneBuild ==
    \A t \in Threads :
        observed[t].by # "none"
            => \A f, g \in IndexFields : observed[t].origin[f] = observed[t].origin[g]

-----------------------------------------------------------------------------
(* The tuition cost score as a function of cost, for a positive ceiling *)

MaxCeilingSteps == 4
MaxCostSteps == 6

\* ceilings 25, 50, ...; costs -25, 0, 25, ...
Ceilings == {25 * i : i \in 1..MaxCeilingSteps}
Costs == {25 * (i - 1) : i \in 0..MaxCostSteps}

NoScores == [done |-> FALSE, a |-> NaN, b |-> NaN]

InitCostFit ==
    /\ IdleRequest
    /\ InitAnalyzerFields
    /\ IdleThreads
    /\ file = "missing"
    /\ sklearn = TRUE
    /\ fn_in \in [ceiling : Ceilings, cost_a : Costs, cost_b : Costs]
    /\ fn_out = NoScores

\* score_programs, lines 554-555, on two candidates of one request
ApplyCostFit ==
    /\ ~fn_out.done
    /\ fn_out' = [done |-> TRUE,
                  a |-> TuitionScore(Num(fn_in.cost_a), Num(fn_in.ceiling)),
                  b |-> TuitionScore(Num(fn_in.cost_b), Num(fn_in.ceiling))]
    /\ UNCHANGED <<pipeVars, anVars, thrVars, sklearn, fn_in>>

NextCostFit == ApplyCostFit

SpecCostFit == InitCostFit /\ [][NextCostFit]_vars

\* clamp((ceiling - cost) / ceiling, 0, 1) of integers, ceiling > 0
ClampedShare(cost, ceiling) ==
    IF ceiling - cost < 0 THEN Num(0)
    ELSE IF ceiling - cost > ceiling THEN Num(1)
    ELSE Rat(ceiling - cost, ceiling)

\* C10: for a positive ceiling the tuition cost score is 1 when cost <= 0,
\* otherwise clamp((ceiling - cost) / ceiling, 0, 1); it does not increase
\* with the cost and is 0 at and above the ceiling.
C10_CostFit ==
    fn_out.done =>
        /\ fn_out.a = IF fn_in.cost_a <= 0 THEN Num(1)
                      ELSE ClampedShare(fn_in.cost_a, fn_in.ceiling)
        /\ fn_in.cost_a <= fn_in.cost_b => FLe(fn_out.b, fn_out.a)
        /\ fn_in.cost_a >= fn_in.ceiling => fn_out.a = Num(0)

\* a cost strictly between 0 and the ceiling, and one above the ceiling
C10_Witness ==
    /\ fn_out.done
    /\ 0 < fn_in.cost_a /\ fn_in.cost_a < fn_in.ceiling
    /\ fn_in.cost_b > fn_in.ceiling
    /\ FLt(Num(0), fn_out.a) /\ FLt(fn_out.a, Num(1))
    /\ fn_out.b = Num(0)

-----------------------------------------------------------------------------
(* The university ranking score as a function of the global rank *)

RankSpread == 1

\* the ranks drawn: 1, and those within RankSpread of a tier boundary
TierBounds == {10, 50, 100, 200, 500}
Ranks == {1} \cup {b + d : b \in TierBounds, d \in (-RankSpread)..RankSpread}

NoRankScores == [done |-> FALSE, a |-> NaN, b |-> NaN, next |-> NaN]

InitRanking ==
    /\ IdleRequest
    /\ InitAnalyzerFields
    /\ IdleThreads
    /\ file = "missing"
    /\ sklearn = TRUE
    /\ fn_in \in [rank_a : Ranks, rank_b : Ranks]
    /\ fn_out = NoRankScores

\* score_programs, lines 558-563, on two candidates, and on the rank that
\* follows the first one's
ApplyRanking ==
    /\ ~fn_out.done
    /\ fn_out' = [done |-> TRUE,
                  a    |-> RankingScore(Num(fn_in.rank_a)),
                  b    |-> RankingScore(Num(fn_in.rank_b)),
                  next |-> RankingScore(Num(fn_in.rank_a + 1))]
    /\ UNCHANGED <<pipeVars, anVars, thrVars, sklearn, fn_in>>

NextRanking == ApplyRanking

SpecRanking == InitRanking /\ [][NextRanking]_vars

\* the tiers as the contract lists them, of an integer rank
TierOf(rank) ==
    CASE rank <= 10  -> Num(1)
      [] rank > 10  /\ rank <= 50  -> Rat(9, 10)
      [] rank > 50  /\ rank <= 100 -> Rat(8, 10)
      [] rank > 100 /\ rank <= 200 -> Rat(7, 10)
      [] rank > 200 /\ rank <= 500 -> Rat(5, 10)
      [] rank > 500 -> Rat(3, 10)

\* C11: the ranking score is 1.0 up to rank 10, 0.9 up to 50, 0.8 up to
\* 100, 0.7 up to 200, 0.5 up to 500 and 0.3 beyond; it does not increase
\* with the rank, and it steps down exactly after 10, 50, 100, 200 and 500.
C11_RankingTiers ==
    fn_out.done =>
        /\ fn_out.a = TierOf(fn_in.rank_a)
        /\ fn_in.rank_a <= fn_in.rank_b => FLe(fn_out.b, fn_out.a)
        /\ (fn_out.next # fn_out.a) = (fn_in.rank_a \in {10, 50, 100, 200, 500})

\* a rank of the 0.7 tier against one beyond the last boundary
C11_Witness ==
    /\ fn_out.done
    /\ fn_in.rank_a = 200 /\ fn_out.a = Rat(7, 10) /\ fn_out.next = Rat(5, 10)
    /\ fn_in.rank_b = 501 /\ fn_out.b = Rat(3, 10)

-----------------------------------------------------------------------------
(* score_programs on two given candidates: A (tuition 20000, rank 5) and    *)
(* B (tuition 60000, rank 300), a tuition ceiling of 50000, and the weight  *)
(* shared equally by tuition cost and university ranking                    *)

\* ratings that collect_preferences turns into the weights 0.5 and 0.5
ScenarioRatings ==
    [Equal(0) EXCEPT !["tuition_cost"] = 1, !["university_ranking"] = 1]

\* the other preferences are drawn
ScenarioRequests ==
    { Prefs({"field_of_study", "degree_level", "max_tuition",
             "max_living_expenses", "preferred_countries",
             "language_preference", "importance_ratings"},
            f, S_Master, Num(50000), l, c, lang, NaN, ScenarioRatings) :
        f \in {S_empty, S_cs, S_msc, S_law},
        l \in {Num(0), Num(1500), Inf},
        c \in {<<>>, <<S_USA>>, <<S_Italy>>},
        lang \in {EnglishOnly, AnyWithEnglish, OpenToLearning} }

IsCandidateA(x) ==
    x.row.tuition_per_year = Num(20000) /\ x.row.ranking_global = Num(5)
    /\ x.row.name_program = S_MScAI

IsCandidateB(x) ==
    x.row.tuition_per_year = Num(60000) /\ x.row.ranking_global = Num(300)

\* the two candidates as rows of the merged catalog, in either order
ScenarioTables(schema) ==
    LET merged == Merge(schema)
        a == SelectSeq(merged.rows, IsCandidateA)
        b == SelectSeq(merged.rows, IsCandidateB)
    IN  { Table(merged.cols, a \o b), Table(merged.cols, b \o a) }

InitScenario ==
    /\ entry = "cli"
    /\ request \in ScenarioRequests
    /\ db \in {d \in Databases : d.status = "ok"}
    /\ user_preferences = [request EXCEPT !.keys = @ \ {"importance_ratings"}]
    /\ criteria_weights = NormalisedWeights(request.importance_ratings)
    /\ pc = "filtered"
    /\ filtered \in ScenarioTables(db.schema)
    /\ scored = NoTable
    /\ boosted = NoTable
    /\ enhanced = NoTable
    /\ explanations = <<>>
    /\ response = NoResponse
    /\ InitAnalyzerFields
    /\ IdleThreads
    /\ IdleFunctions
    /\ file = "missing"
    /\ sklearn = TRUE

NextScenario == Score

SpecScenario == InitScenario /\ [][NextScenario]_vars

\* the scored rows of the two candidates
ScoredA == CHOOSE x \in {scored.rows[i] : i \in 1..Len(scored.rows)} : IsCandidateA(x)
ScoredB == CHOOSE x \in {scored.rows[i] : i \in 1..Len(scored.rows)} : IsCandidateB(x)

\* what the scenario has in common with the code
ScenarioRest ==
    /\ ScoredB.scores.tuition_cost = Num(0)
    /\ ScoredA.scores.university_ranking = Num(1)
    /\ ScoredB.scores.university_ranking = Rat(1, 2)
    /\ FLt(ScoredB.final_score, ScoredA.final_score)
    /\ IsCandidateA(scored.rows[1])

\* C12 as stated: cost_fit(A) = 1.0, cost_fit(B) = 0, reputation_fit(A) =
\* 1.0, reputation_fit(B) = 0.5, final_score(A) > final_score(B), A first.
C12_ScenarioAsStated ==
    pc = "scored" => (ScoredA.scores.tuition_cost = Num(1) /\ ScenarioRest)

\* C12: cost_fit(A) = (50000 - 20000) / 50000 = 0.6, cost_fit(B) = 0,
\* reputation_fit(A) = 1.0, reputation_fit(B) = 0.5, final_score(A) >
\* final_score(B), and A ranks first.
C12_Scenario ==
    pc = "scored" => (ScoredA.scores.tuition_cost = Rat(3, 5) /\ ScenarioRest)

\* both candidates scored with the weights 0.5 and 0.5, B given first
C12_Witness ==
    /\ pc = "scored" /\ Len(scored.rows) = 2
    /\ IsCandidateB(filtered.rows[1])
    /\ criteria_weights.tuition_cost = Rat(1, 2)
    /\ criteria_weights.university_ranking = Rat(1, 2)
    /\ WeightTotal(criteria_weights) = Num(1)


-----------------------------------------------------------------------------
(* A neighbor query: load_data and build_recommendation_model on a new      *)
(* analyzer, then find_similar_students with the n of one of its callers    *)

\* the files of the requests, and one with more records than a caller asks
SimilarFiles == Files \cup {"class"}

\* n of app.get_similar_students (the default) and of enhance_recommendations
NeighborCounts == {5, EnhanceNeighbors}

\* the gpa of the query; nan for a query without the key
QueryGpas == {NaN, Num(1), Num(2), Rat(5, 2), Num(3), Num(4), Num(5)}

SimilarQueries ==
    { [keys |-> IF IsNaN(g) THEN {} ELSE {"gpa"}, gpa |-> g] : g \in QueryGpas }

InitSimilar ==
    /\ IdleRequest
    /\ InitAnalyzerFields
    /\ IdleThreads
    /\ file \in SimilarFiles
    /\ sklearn \in BOOLEAN
    /\ fn_in \in [prefs : SimilarQueries, n : NeighborCounts]
    /\ fn_out = [stage |-> "new", result |-> NoTable]

\* load_data, then build_recommendation_model
BuildIndex ==
    /\ fn_out.stage = "new"
    /\ SetAnalyzer(BuildRecommendationModel(LoadData(TheAnalyzer, file), sklearn))
    /\ fn_out' = [fn_out EXCEPT !.stage = "built"]
    /\ UNCHANGED <<pipeVars, thrVars, sklearn, fn_in>>

\* find_similar_students(preferences, n)
FindNeighbors ==
    /\ fn_out.stage = "built"
    /\ \E similar \in FindSimilarStudents(TheAnalyzer, fn_in.prefs, fn_in.n) :
          fn_out' = [stage |-> "found", result |-> similar]
    /\ UNCHANGED <<pipeVars, anVars, thrVars, sklearn, fn_in>>

NextSimilar == BuildIndex \/ FindNeighbors

SpecSimilar == InitSimilar /\ [][NextSimilar]_vars


\* find_similar_students has returned
Found == fn_out.stage = "found"

\* the records returned, by student_id (the position in student_data)
ReturnedIds ==
    {fn_out.result.rows[i].student_id : i \in 1..Len(fn_out.result.rows)}

\* the raw feature column the build normalized: missing values filled
FilledFeatures(col) ==
    LET vals == ColumnOf(student_data.rows, col)
    IN  [i \in 1..Len(vals) |->
           IF IsNaN(vals[i]) THEN ColumnMean(vals) ELSE vals[i]]

\* the query, normalized with the mean and the standard deviation the
\* build used for the records
QueryByBuild ==
    [j \in 1..Len(feature_columns.cols) |->
       LET col == feature_columns.cols[j]
       IN  NpDiv(FSub(QueryValue(TheAnalyzer, fn_in.prefs, col),
                      ColumnMean(FilledFeatures(col))),
                 ColumnStd(FilledFeatures(col)))]

\* no result without an index, and min(n, R) records of an index over R
\* records, no more than the k of the build
ResultSize ==
    /\ (model.none \/ feature_columns.none \/ feature_columns.cols = <<>>)
          => fn_out.result = NoTable
    /\ IndexOfOneBuild
          => /\ ~fn_out.result.none
             /\ Len(fn_out.result.rows) = Min(fn_in.n, Len(student_data.rows))
             /\ Cardinality(ReturnedIds) = Len(fn_out.result.rows)
             /\ Min(fn_in.n, Len(student_data.rows)) <= model.n_neighbors

\* no record left out is nearer to the query than a record returned
ResultIsNearest ==
    IndexOfOneBuild =>
        LET dist == [i \in 1..Len(student_data.rows) |->
                       SquaredDistance(normalized_features.rows[i], QueryByBuild)]
        IN  \A i \in ReturnedIds :
                \A j \in (1..Len(student_data.rows)) \ ReturnedIds :
                    FLe(dist[i], dist[j])

\* C19: find_similar_students returns no result when the index was never
\* built or no feature column matched; of an index over R records it
\* returns exactly min(n, R) records, the nearest to the query by Euclidean
\* distance, and asks for no more neighbors than the k = min(10, R) of the
\* build.
C19_NearestNeighbors == Found => (ResultSize /\ ResultIsNearest)

\* the part of C19 on the number of records
C19_ResultSize == Found => ResultSize


\* the query as find_similar_students normalizes it
TheQuery == NormalizedQuery(TheAnalyzer, fn_in.prefs)

\* the record's raw feature values are the values of the query
QueryEquals(i) ==
    \A j \in 1..Len(feature_columns.cols) :
        LET raw == Feature(student_data.rows[i], feature_columns.cols[j])
        IN  IsNum(raw) /\ QueryValue(TheAnalyzer, fn_in.prefs,
                                     feature_columns.cols[j]) = raw

\* C20: find_similar_students normalizes the query with the per-feature
\* mean and standard deviation build_recommendation_model used for the
\* records: a query equal to a record's raw feature values maps to the
\* record's normalized row, and a query without values maps to the zero
\* vector.
C20_QueryNormalizedAsRecords ==
    (Found /\ IndexOfOneBuild) =>
        /\ TheQuery = QueryByBuild
        /\ \A i \in 1..Len(student_data.rows) :
              QueryEquals(i) => TheQuery = normalized_features.rows[i]
        /\ fn_in.prefs.keys = {}
              => TheQuery = [j \in 1..Len(feature_columns.cols) |-> Num(0)]


\* a feature column of the data in which every record has the same value
ZeroVarianceColumn ==
    /\ ~student_data.none /\ student_data.rows # <<>>
    /\ ~feature_columns.none
    /\ \E j \in 1..Len(feature_columns.cols) :
          LET vals == FilledFeatures(feature_columns.cols[j])
          IN  \A i \in 1..Len(vals) : IsNum(vals[i]) /\ vals[i] = vals[1]

\* C21: a feature column with zero standard deviation is guarded:
\* build_recommendation_model still leaves a usable index (a fitted
\* estimator over a matrix without undefined values), the column adds
\* nothing to a distance, and a query gets its neighbors.
C21_ZeroVarianceGuarded ==
    (fn_out.stage \in {"built", "found"} /\ sklearn /\ ZeroVarianceColumn)
        => /\ ~model.none /\ model.fit_X # <<>>
           /\ ~normalized_features.none /\ ~HasNaN(normalized_features)
           /\ Found => ~fn_out.result.none


-----------------------------------------------------------------------------
(* score_programs on a batch in which a record holds an unexpected value:   *)
(* SQLite stores a text in a column declared INTEGER as it is, and the      *)
(* column is then read as objects                                           *)

\* a text where a number is expected
Text == [k |-> "text", n |-> 0, d |-> 1]

\* line 559: ranking <= 10 between a str and an int raises TypeError
ScoringRaises(x) == x.row.ranking_global.k = "text"

\* the merged rows of the catalog, and one more program of a university
\* whose ranking_global is a text
BatchPool ==
    LET extra == MergeRows(<<AllPrograms[6]>>, Universities)[1]
    IN  Labelled(MergeRows(Programs, Universities)
                 \o <<[extra EXCEPT !.ranking_global = Text]>>)

\* the candidates of a catalog with some of these programs, all of which
\* pass the filters of the request, in catalog order
Batches ==
    { Table(MergedColumns("legacy"),
            SelectSeq(BatchPool, LAMBDA x : x.label \in keep)) :
        keep \in (SUBSET {BatchPool[i].label : i \in 1..Len(BatchPool)}) \ {{}} }

\* requests whose filters keep every program of the pool
BatchRequests ==
    { p \in ApiRequests :
        /\ p.field_of_study = S_empty
        /\ Has(p, "max_tuition") /\ p.max_tuition = Num(60000)
        /\ ~Has(p, "preferred_countries")
        /\ (Has(p, "language_preference") => p.language_preference # EnglishOnly) }

InitBatch ==
    /\ entry = "api"
    /\ request \in BatchRequests
    /\ db \in {d \in Databases : d.status = "ok" /\ d.schema = "legacy"}
    /\ user_preferences = EnrichPreferences(request)
    /\ criteria_weights = DefaultWeights
    /\ pc = "filtered"
    /\ filtered \in Batches
    /\ scored = NoTable
    /\ boosted = NoTable
    /\ enhanced = NoTable
    /\ explanations = <<>>
    /\ response = NoResponse
    /\ InitAnalyzerFields
    /\ IdleThreads
    /\ IdleFunctions
    /\ file = "missing"
    /\ sklearn = TRUE

\* get_recommendations, line 105: score_programs has no handler in its
\* loop, so an exception of one row leaves the function and is caught by
\* the except clause of the request (lines 141-146)
ScoreBatch ==
    /\ pc = "filtered"
    /\ IF \E i \in 1..Len(filtered.rows) : ScoringRaises(filtered.rows[i])
       THEN /\ response' = Response("500", FALSE, "TypeError", <<>>)
            /\ pc' = "done"
            /\ UNCHANGED scored
       ELSE /\ scored' \in ScorePrograms(db, user_preferences, criteria_weights,
                                         filtered)
            /\ pc' = "scored"
            /\ UNCHANGED response
    /\ UNCHANGED <<entry, request, db, user_preferences, criteria_weights,
                   filtered, boosted, enhanced, explanations>>
    /\ UNCHANGED <<anVars, thrVars, sklearn, fnVars>>

NextBatch == ScoreBatch

SpecBatch == InitBatch /\ [][NextBatch]_vars

\* the labels of the candidates of the batch whose scoring does not raise
Computable ==
    {filtered.rows[i].label :
       i \in {i \in 1..Len(filtered.rows) : ~ScoringRaises(filtered.rows[i])}}

\* C26: a computation error while scoring one candidate makes only that
\* candidate be skipped: score_programs still returns the scores of every
\* other candidate, and the batch is not aborted.
C26_FailingCandidateSkipped ==
    (pc # "filtered" /\ Computable # {})
        => /\ response.status # "500"
           /\ ~scored.none
           /\ {scored.rows[i].label : i \in 1..Len(scored.rows)} = Computable

\* the same, for batches in which no candidate raises
C26_OnCleanBatch ==
    (\A i \in 1..Len(filtered.rows) : ~ScoringRaises(filtered.rows[i]))
        => C26_FailingCandidateSkipped

=============================================================================
